---------------------------- MODULE Spec2Model ----------------------------
(***************************************************************************)
(* A model of the world_weaver engine: the incremental delimiter scanner   *)
(* (StreamFinder), the turn-output codec (TurnOutput::to_llm_format and    *)
(* TryFrom<OutputMessage>), the per-turn streaming state machine           *)
(* (Game::send_to_llm), the turn commit (Game::update and                  *)
(* Game::mk_summary_if_neccessary, driven by GameContext::update) and the  *)
(* save archive (SaveArchive).                                             *)
(*                                                                         *)
(* A Rust String is modelled as a sequence of one-character strings, so    *)
(* that scanning, splitting and trimming are computed character by         *)
(* character as the code does.                                             *)
(***************************************************************************)
EXTENDS Integers, Sequences, FiniteSets, TLC

VARIABLES
    \* ---- StreamFinder driver (one scanner fed a chunked input) ----
    sf_target,      \* StreamFinder.target
    sf_input,       \* the whole input string S that is being fed in chunks
    sf_fed,         \* number of characters of S fed so far
    sf_finder,      \* [current_pos, stored_output] of the StreamFinder
    sf_checked,     \* concatenation of all CheckedOutput texts returned so far
    sf_last,        \* the MatchResult of the last call of process
    \* ---- codec round trip (to_llm_format, then TurnOutput::try_from) ----
    codec_pc,       \* "start" | "encoded" | "decoded" ("idle" outside SpecCodec)
    codec_x,        \* the TurnOutput that is encoded
    codec_text,     \* x.to_llm_format()
    codec_result,   \* TurnOutput::try_from(OutputMessage{text, tokens of x})
    \* ---- SaveArchive: the file on disk and the open handle ----
    ar_file,        \* the cells of the archive file
    ar_header,      \* SaveArchive.header of the open handle
    ar_index,       \* SaveArchive.image_index of the open handle
    ar_appended,    \* history: the images passed to append_image, in order
    ar_saved,       \* history: the document of the last successful write_game_data
    ar_last,        \* history: the last operation on the archive and how it ended
    ar_reopen_at,   \* history: number of images appended before the last reopen
    \* ---- Game.data and the GameContext that commits turns ----
    gm_turn_data,   \* Game.data.turn_data
    gm_summaries,   \* Game.data.summaries
    gm_passed,      \* history: the arguments of the calls of Game::update, in order
    gm_world,       \* Game.data.world_description
    ctx_sub_state,  \* GameContext.sub_state
    ctx_tasks,      \* the futures of the running turn that have not reported yet
    ctx_last,       \* history: the last message handled and whether it returned Ok
    ctx_request,    \* history: the Request of the last call of send_to_llm
    ctx_summary_request, \* history: what the last summarization was asked over
    ctx_sub_data,   \* the TurnData (and completed_turn) that sub_state Complete or InThePast holds
    \* ---- one run of the stream of Game::send_to_llm ----
    tn_pc,                  \* "loop" | "final_poll" | "done" | "error" | "panic"
    tn_mode,                \* SendToLLMState
    tn_eoi_finder,          \* StreamFinder::new("<<<EOIC>>>")
    tn_eoo_finder,          \* StreamFinder::new("<<<EOO>>>")
    tn_image_description,   \* image_description
    tn_post_eoi_text,       \* post_eoi_text: Option<String>
    tn_tx_img_description,  \* tx_img_description: "Some" until taken, then "None"
    tn_img_sent,            \* number of descriptions sent on tx_img_description
    tn_live,                \* the chunks yielded on text_stream, in order
    tn_output,              \* the TurnOutput decoded from MessageComplete
    tn_tx_output,           \* tx_output: "pending" | "sent" | "dropped"
    tn_polls,               \* history: polls of the response stream in the loop
    tn_ended,               \* the response stream has reported its end
    tn_retained,            \* history: the post_token_text of the <<<EOIC>>> match
    tn_final,               \* history: what the poll after MessageComplete yielded
    tn_decoded,             \* history: "none", "ok" or the error of TurnOutput::try_from(m)
    \* ---- the stream of an LLM client (Claude, OpenAIChat) ----
    cl_client,      \* "Claude" | "OpenAIChat" ("none" outside SpecClient)
    cl_pc,          \* "request" | "streaming" | "ended" | "failed"
    cl_items,       \* the items the stream has yielded, in order
    cl_first_msg_complete,  \* first_msg_complete of claude_api::send_request_stream
    cl_text,        \* text / full_text: the number of deltas pushed to it
    cl_received,    \* history: events or lines received from the server
    \* ---- sse_parser::Parser fed a byte stream in chunks ----
    sse_stream,     \* the whole byte stream
    sse_fed,        \* number of bytes of it fed so far
    sse_parser,     \* [bytes, index] of the Parser
    sse_events,     \* the events returned so far, in order
    sse_pc,         \* "feeding" | "done" | "error"
    \* ---- a whole response delivered to send_to_llm in fragments ----
    rs_text,        \* the full text of the response
    rs_fed,         \* number of its characters delivered as TextDelta so far
    \* ---- GameContext with the call of send_to_llm behind every value ----
    cc_calls,       \* number of calls of generate_new_turn so far
    cc_sub_state,   \* sub_state: its variant and the call each field comes from
    cc_messages,    \* the messages of the tasks that have not been handled yet
    cc_turn_data    \* the TurnData pushed by Game::update, in order

finderVars == <<sf_target, sf_input, sf_fed, sf_finder, sf_checked, sf_last>>
codecVars == <<codec_pc, codec_x, codec_text, codec_result>>
archiveVars ==
    <<ar_file, ar_header, ar_index, ar_appended, ar_saved, ar_last, ar_reopen_at>>
gameVars == <<gm_turn_data, gm_summaries, gm_passed, gm_world>>
ctxVars ==
    <<ctx_sub_state, ctx_tasks, ctx_last, ctx_request, ctx_summary_request,
      ctx_sub_data>>
turnVars ==
    <<tn_pc, tn_mode, tn_eoi_finder, tn_eoo_finder, tn_image_description,
      tn_post_eoi_text, tn_tx_img_description, tn_img_sent, tn_live, tn_output,
      tn_tx_output, tn_polls, tn_ended, tn_retained, tn_final, tn_decoded>>

clientVars ==
    <<cl_client, cl_pc, cl_items, cl_first_msg_complete, cl_text, cl_received>>
sseVars == <<sse_stream, sse_fed, sse_parser, sse_events, sse_pc>>
respVars == <<rs_text, rs_fed>>
callVars == <<cc_calls, cc_sub_state, cc_messages, cc_turn_data>>
llmVars == <<clientVars, sseVars, respVars, callVars>>

vars == <<finderVars, codecVars, archiveVars, gameVars, ctxVars, turnVars, llmVars>>

\* What the actions of one component leave alone.
notFinder ==
    <<codecVars, archiveVars, gameVars, ctxVars, turnVars, llmVars>>
notCodec ==
    <<finderVars, archiveVars, gameVars, ctxVars, turnVars, llmVars>>
notArchive ==
    <<finderVars, codecVars, gameVars, ctxVars, turnVars, llmVars>>
notGame ==
    <<finderVars, codecVars, archiveVars, ctxVars, turnVars, llmVars>>
notContext ==
    <<finderVars, codecVars, turnVars, llmVars>>
notClient ==
    <<finderVars, codecVars, archiveVars, gameVars, ctxVars, turnVars, sseVars,
      respVars, callVars>>
notSse ==
    <<finderVars, codecVars, archiveVars, gameVars, ctxVars, turnVars, clientVars,
      respVars, callVars>>
notTurn ==
    <<finderVars, codecVars, archiveVars, gameVars, ctxVars, llmVars>>

---------------------------------------------------------------------------
(* Bounds of the model. *)

\* Longest text put before and after the target token in a scanner input.
MaxPad == 2

\* SaveArchive::DEFAULT_GAME_DATA_SIZE (20 MiB in save_archive.rs:69), scaled
\* to the documents of the model: the cells of the game-data region.
DEFAULT_GAME_DATA_SIZE == 132

\* Most images appended to one archive in SpecArchive.
MaxImages == 2

\* Most calls of Game::update in SpecGame.
MaxUpdates == 3

\* Most turns committed in one session in SpecCommit.
MaxTurns == 19

\* The turns of a session that SpecEdit edits: the first ones.
MaxEditedTurns == 1

\* Most text fragments of one turn in SpecJoin.
MaxFragments == 2

\* Most TextDelta fragments that a response is cut into in SpecResp.
MaxDeltas == 3

\* Calls of generate_new_turn followed in one session.
MaxCalls == 3

\* Most polls of the response stream inside the loop of send_to_llm.
MaxPolls == 4

\* Most turns committed in a session whose streams are polled (SpecSession).
MaxSessionTurns == 2

\* Most copies of one delimiter at its place in a text that is decoded.
MaxRepeat == 2

\* Most <<<EOA>>> separators in a text that is decoded.
MaxActionSeps == 3

\* Most turns that the rewinds of one session cut from its history.
MaxDiscarded == 2

\* Most events or lines a client receives from the server in SpecClient.
MaxReceived == 4

\* Longest chunk of the byte stream fed to the SSE parser at once.
MaxChunk == 50

---------------------------------------------------------------------------
(* Strings. *)

\* The delimiters of the wire format, game.rs:621-630 and game.rs:95-96.
EOID == <<"<", "<", "<", "E", "O", "I", "D", ">", ">", ">">>
EOIC == <<"<", "<", "<", "E", "O", "I", "C", ">", ">", ">">>
EOO == <<"<", "<", "<", "E", "O", "O", ">", ">", ">">>
EOS == <<"<", "<", "<", "E", "O", "S", ">", ">", ">">>
EOA == <<"<", "<", "<", "E", "O", "A", ">", ">", ">">>

\* The target of the scanner's unit test, stream_finder.rs:102.
USER_TOKEN == <<"U", "s", "e", "r", ":">>

\* All sequences over the set chars of length at most n.
RECURSIVE SeqsUpTo(_, _)
SeqsUpTo(chars, n) ==
    IF n = 0 THEN {<<>>}
    ELSE LET shorter == SeqsUpTo(chars, n - 1)
         IN  shorter \cup {Append(s, c) : s \in shorter, c \in chars}

\* s[i..] starts with pat.
MatchesAt(s, pat, i) ==
    /\ i + Len(pat) - 1 <= Len(s)
    /\ SubSeq(s, i, i + Len(pat) - 1) = pat

\* The start positions of the occurrences of pat in s.
Occurrences(s, pat) == {i \in 1..Len(s) : MatchesAt(s, pat, i)}

IsPrefix(p, s) == Len(p) <= Len(s) /\ SubSeq(s, 1, Len(p)) = p

\* s repeated n times.
RECURSIVE Rep(_, _)
Rep(s, n) == IF n = 0 THEN <<>> ELSE s \o Rep(s, n - 1)

---------------------------------------------------------------------------
(* StreamFinder, stream_finder.rs. *)

\* StreamFinder::new
new_finder == [current_pos |-> 0, stored_output |-> <<>>]

Blocked == [kind |-> "Blocked", text |-> <<>>,
            pre_token_text |-> <<>>, post_token_text |-> <<>>]

CheckedOutput(t) == [kind |-> "CheckedOutput", text |-> t,
                     pre_token_text |-> <<>>, post_token_text |-> <<>>]

StopTokenMatched(pre, post) ==
    [kind |-> "StopTokenMatched", text |-> <<>>,
     pre_token_text |-> pre, post_token_text |-> post]

\* A plausible slip: the cursor always reset to 0 on a broken match.
restart_pos_zero(target, ch) == 0

\* The position the scanner restarts from when ch does not extend the match.
restart_pos(target, ch) == IF ch = target[1] THEN 1 ELSE 0

\* StreamFinder::process_char: the new current_pos and the outcome.
\* target[current_pos] of the code is target[current_pos + 1] here.
process_char(target, current_pos, ch) ==
    IF ch = target[current_pos + 1]
    THEN [current_pos |-> current_pos + 1,
          outcome |-> IF current_pos + 1 = Len(target)
                      THEN "FullMatch" ELSE "PrefixMatch"]
    ELSE [current_pos |-> restart_pos(target, ch),
          outcome |-> IF ch = target[1] THEN "PrefixReMatch" ELSE "Mismatch"]

\* The while loop of StreamFinder::process, from character i of input on.
RECURSIVE process_loop(_, _, _, _, _)
process_loop(target, f, input, i, output_chars) ==
    IF i > Len(input)
    THEN [finder |-> f,
          result |-> IF output_chars = <<>> THEN Blocked
                     ELSE CheckedOutput(output_chars)]
    ELSE LET ch == input[i]
             pc == process_char(target, f.current_pos, ch)
         IN  CASE pc.outcome = "Mismatch" ->
                    process_loop(target,
                        [current_pos |-> pc.current_pos, stored_output |-> <<>>],
                        input, i + 1,
                        output_chars \o f.stored_output \o <<ch>>)
               [] pc.outcome = "PrefixMatch" ->
                    process_loop(target,
                        [current_pos |-> pc.current_pos,
                         stored_output |-> Append(f.stored_output, ch)],
                        input, i + 1, output_chars)
               [] pc.outcome = "PrefixReMatch" ->
                    process_loop(target,
                        [current_pos |-> pc.current_pos, stored_output |-> <<ch>>],
                        input, i + 1, output_chars \o f.stored_output)
               [] pc.outcome = "FullMatch" ->
                    [finder |-> new_finder,
                     result |-> StopTokenMatched(output_chars,
                                    SubSeq(input, i + 1, Len(input)))]

\* A plausible slip: the first character of a chunk skipped.
process_from_second(target, f, input) == process_loop(target, f, input, 2, <<>>)

\* StreamFinder::process
process(target, f, input) == process_loop(target, f, input, 1, <<>>)

---------------------------------------------------------------------------
(* The turn-output codec, game.rs:605-686. *)

\* lib.rs:7
N_PROPOSED_OPTIONS == 3

NL == <<"\n">>

\* The characters str::trim removes (Unicode White_Space, those of the model).
Whitespace == {" ", "\n", "\t"}

\* str::trim
RECURSIVE trim_start(_)
trim_start(s) ==
    IF s # <<>> /\ Head(s) \in Whitespace THEN trim_start(Tail(s)) ELSE s

RECURSIVE trim_end(_)
trim_end(s) ==
    IF s # <<>> /\ s[Len(s)] \in Whitespace
    THEN trim_end(SubSeq(s, 1, Len(s) - 1)) ELSE s

\* A plausible slip: only the leading whitespace removed.
trim_start_only(s) == trim_start(s)

trim(s) == trim_end(trim_start(s))

\* str::split(pat).collect(): the pieces of s between the non-overlapping
\* occurrences of pat, found left to right; start is where the current piece
\* begins and i the position being tried.
RECURSIVE split_from(_, _, _, _)
split_from(s, pat, start, i) ==
    IF i + Len(pat) - 1 > Len(s) THEN <<SubSeq(s, start, Len(s))>>
    ELSE IF MatchesAt(s, pat, i)
         THEN <<SubSeq(s, start, i - 1)>>
                 \o split_from(s, pat, i + Len(pat), i + Len(pat))
         ELSE split_from(s, pat, start, i + 1)

\* A plausible slip: str::split_once, which cuts at the first occurrence only.
split_at_first(s, pat) ==
    IF Occurrences(s, pat) = {} THEN <<s>>
    ELSE LET i == CHOOSE a \in Occurrences(s, pat) :
                      \A b \in Occurrences(s, pat) : a <= b
         IN  <<SubSeq(s, 1, i - 1), SubSeq(s, i + Len(pat), Len(s))>>

split(s, pat) == split_from(s, pat, 1, 1)

\* [String]::join(sep)
RECURSIVE join(_, _)
join(parts, sep) ==
    IF parts = <<>> THEN <<>>
    ELSE IF Len(parts) = 1 THEN parts[1]
    ELSE parts[1] \o sep \o join(Tail(parts), sep)

\* A plausible slip in to_llm_format: caption and description pushed in the
\* wrong order.
to_llm_format_swapped(x) ==
    x.image_caption \o NL \o EOID \o NL
        \o x.image_description \o NL \o EOIC \o NL
        \o x.text \o NL \o EOO \o NL
        \o x.secret_info \o NL \o EOS \o NL
        \o join(x.proposed_next_actions, NL \o EOA \o NL)

\* TurnOutput::to_llm_format, game.rs:617-633
to_llm_format(x) ==
    x.image_description \o NL \o EOID \o NL
        \o x.image_caption \o NL \o EOIC \o NL
        \o x.text \o NL \o EOO \o NL
        \o x.secret_info \o NL \o EOS \o NL
        \o join(x.proposed_next_actions, NL \o EOA \o NL)

DecodeError(which) == [ok |-> FALSE, error |-> which]

\* No TurnOutput (yet).
NoOutput == [ok |-> FALSE, error |-> "none"]

\* impl TryFrom<OutputMessage> for TurnOutput, game.rs:639-685.  The error
\* names the delimiter of the bail! (or "actions" for the ensure!).
try_from(value) ==
    LET p1 == split(value.text, EOID) IN
    IF Len(p1) # 2 THEN DecodeError("EOID") ELSE
    LET p2 == split(p1[2], EOIC) IN
    IF Len(p2) # 2 THEN DecodeError("EOIC") ELSE
    LET p3 == split(p2[2], EOO) IN
    IF Len(p3) # 2 THEN DecodeError("EOO") ELSE
    LET p4 == split(p3[2], EOS) IN
    IF Len(p4) # 2 THEN DecodeError("EOS") ELSE
    LET parts == split(p4[2], EOA)
        proposed_next_actions == [i \in 1..Len(parts) |-> trim(parts[i])]
    IN
    IF ~(Len(proposed_next_actions) >= N_PROPOSED_OPTIONS)
    THEN DecodeError("actions")
    ELSE [ok |-> TRUE,
          value |->
            [image_description |-> trim(p1[1]),
             image_caption |-> trim(p2[1]),
             text |-> trim(p3[1]),
             secret_info |-> trim(p4[1]),
             proposed_next_actions |->
                SubSeq(proposed_next_actions, 1, N_PROPOSED_OPTIONS),
             input_tokens |-> value.input_tokens,
             output_tokens |-> value.output_tokens]]

---------------------------------------------------------------------------
(* Game data, game.rs:431-437 and 575-589.  Texts that the engine only     *)
(* stores (inputs, narrative, captions, summaries) are integer tags.       *)

\* Option::None of summary_before_input, game.rs:225
None == -1

\* The turn and the summaries built by the archive's test helper
\* make_sample_game_data(turns), save_archive.rs:201-246, with v telling two
\* documents of the same length apart.
SampleTurn(i, v) ==
    [summary_before_input |-> IF i = 0 THEN None ELSE i - 1,
     input |-> i, output |-> [text |-> v, secret_info |-> i],
     image_ids |-> <<i>>, image_captions |-> <<v>>]

\* WorldDescription, game.rs:711-716: its name and main description.
World(v) == [name |-> v, main_description |-> v]

make_sample_game_data(turns, v) ==
    [world_description |-> World(v),
     summaries |-> [i \in 1..(turns \div 8) |->
                        [content |-> v, bday |-> (i - 1) * 10]],
     turn_data |-> [i \in 1..turns |-> SampleTurn(i - 1, v)]]

---------------------------------------------------------------------------
(* serde_json::to_string / from_str of GameData, save_archive.rs:123, 164. *)
(* A document is a sequence of cells: an opening cell, the number of       *)
(* turns, six cells per turn, the number of summaries, two cells per       *)
(* summary and a closing cell.  Every cell is an integer, as every cell of *)
(* the archive file is.                                                    *)

JSON_OPEN == 123
JSON_CLOSE == 125
TURN_CELLS == 6
WORLD_CELLS == 2
SUMMARY_CELLS == 2

RECURSIVE Flatten(_)
Flatten(seqs) == IF seqs = <<>> THEN <<>> ELSE Head(seqs) \o Flatten(Tail(seqs))

turn_to_json(t) ==
    <<t.summary_before_input + 1, t.input, t.output.text, t.output.secret_info,
      t.image_ids[1], t.image_captions[1]>>

summary_to_json(su) == <<su.content, su.bday>>

to_json(data) ==
    <<JSON_OPEN, data.world_description.name,
      data.world_description.main_description, Len(data.turn_data)>>
        \o Flatten([i \in 1..Len(data.turn_data) |-> turn_to_json(data.turn_data[i])])
        \o <<Len(data.summaries)>>
        \o Flatten([i \in 1..Len(data.summaries) |-> summary_to_json(data.summaries[i])])
        \o <<JSON_CLOSE>>

turn_from_json(c) ==
    [summary_before_input |-> c[1] - 1, input |-> c[2],
     output |-> [text |-> c[3], secret_info |-> c[4]],
     image_ids |-> <<c[5]>>, image_captions |-> <<c[6]>>]

JsonError ==
    [ok |-> FALSE,
     value |-> [world_description |-> World(0), summaries |-> <<>>,
                turn_data |-> <<>>]]

\* serde_json::from_str::<GameData>: fails unless the cells are exactly one
\* well-formed document.
from_json(b) ==
    IF Len(b) < 4 + WORLD_CELLS \/ b[1] # JSON_OPEN \/ b[Len(b)] # JSON_CLOSE
    THEN JsonError
    ELSE LET nt == b[2 + WORLD_CELLS]
             first == 3 + WORLD_CELLS        \* the first cell of the turns
             sp == first + TURN_CELLS * nt   \* where the summary count is
         IN  IF nt < 0 \/ sp >= Len(b) THEN JsonError
             ELSE LET ns == b[sp] IN
                  IF ns < 0 \/ sp + SUMMARY_CELLS * ns + 1 # Len(b) THEN JsonError
                  ELSE [ok |-> TRUE,
                        value |->
                          [world_description |->
                              [name |-> b[2], main_description |-> b[3]],
                           turn_data |-> [i \in 1..nt |->
                              turn_from_json(SubSeq(b, first + TURN_CELLS * (i - 1),
                                                       first - 1 + TURN_CELLS * i))],
                           summaries |-> [i \in 1..ns |->
                              [content |-> b[sp + SUMMARY_CELLS * (i - 1) + 1],
                               bday |-> b[sp + SUMMARY_CELLS * (i - 1) + 2]]]]]

---------------------------------------------------------------------------
(* SaveArchive, save_archive.rs.  The file is a sequence of cells, offset  *)
(* o of the code being cell o + 1.  A header field takes one cell (8 bytes *)
(* in the code), a byte of JSON or of an image one cell.                   *)

\* b"WOWEAVER", save_archive.rs:44, as the one cell that holds it.
MAGIC == 87

\* The fields of SaveHeader in #[repr(C)] order, save_archive.rs:56-66.
HeaderFields ==
    <<"magic", "version", "game_data_region_size", "game_data_size",
      "game_data_region_offset", "index_offset", "index_size">>

\* SaveArchive::HEADER_SIZE = size_of::<SaveHeader>(), in cells.
HEADER_SIZE == Len(HeaderFields)

Zeros(n) == [i \in 1..n |-> 0]

\* A plausible slip: a file that is only ever extended, never truncated.
set_len_grow_only(f, n) == IF n <= Len(f) THEN f ELSE f \o Zeros(n - Len(f))

\* File::set_len: truncates, or extends with zeros.
set_len(f, n) == IF n <= Len(f) THEN SubSeq(f, 1, n) ELSE f \o Zeros(n - Len(f))

\* seek(Start(off)) then write_all(bytes); a gap past the end reads as zeros.
write_at(f, off, bytes) ==
    LET g == IF Len(f) < off THEN set_len(f, off) ELSE f
        n == IF Len(g) > off + Len(bytes) THEN Len(g) ELSE off + Len(bytes)
    IN  [i \in 1..n |-> IF i > off /\ i <= off + Len(bytes)
                        THEN bytes[i - off] ELSE g[i]]

\* seek(Start(off)) then read_exact of n cells: fails past the end of file.
read_exact(f, off, n) ==
    IF off + n <= Len(f) THEN [ok |-> TRUE, bytes |-> SubSeq(f, off + 1, off + n)]
    ELSE [ok |-> FALSE, bytes |-> <<>>]

\* write_header, save_archive.rs:188-193
write_header(f, h) == write_at(f, 0, [i \in 1..HEADER_SIZE |-> h[HeaderFields[i]]])

\* read_header, save_archive.rs:181-186 (the file holds at least a header)
read_header(f) ==
    [name \in {HeaderFields[i] : i \in 1..HEADER_SIZE} |->
        f[CHOOSE i \in 1..HEADER_SIZE : HeaderFields[i] = name]]

\* serde_binary::to_vec(&image_index): the number of entries, then offset
\* and length of each.
index_to_vec(index) ==
    <<Len(index)>> \o Flatten([i \in 1..Len(index) |-> index[i]])

\* serde_binary::from_slice
index_from_slice(b) ==
    IF b = <<>> \/ b[1] < 0 \/ Len(b) # 1 + 2 * b[1]
    THEN [ok |-> FALSE, index |-> <<>>]
    ELSE [ok |-> TRUE, index |-> [i \in 1..b[1] |-> <<b[2 * i], b[2 * i + 1]>>]]

\* SaveArchive::create, save_archive.rs:72-98, given DEFAULT_GAME_DATA_SIZE
create(region_size) ==
    LET header == [magic |-> MAGIC, version |-> 1,
                   game_data_region_size |-> region_size,
                   game_data_region_offset |-> HEADER_SIZE,
                   index_offset |-> HEADER_SIZE + region_size,
                   index_size |-> 0,
                   game_data_size |-> 0]
    IN  [ok |-> TRUE,
         file |-> write_header(set_len(<<>>, header.index_offset), header),
         header |-> header,
         image_index |-> <<>>]

\* SaveArchive::open, save_archive.rs:100-120
open(f) ==
    LET header == read_header(f)
        index_bytes == read_exact(f, header.index_offset, header.index_size)
        image_index == IF header.index_size > 0
                       THEN index_from_slice(index_bytes.bytes)
                       ELSE [ok |-> TRUE, index |-> <<>>]
    IN  [ok |-> header.magic = MAGIC /\ index_bytes.ok /\ image_index.ok,
         file |-> f, header |-> header, image_index |-> image_index.index]

\* A plausible slip: the document compared with the offset at which the
\* region ends, not with the size of the region.
fits_region_end_offset(len, region_size) == len < HEADER_SIZE + region_size

\* The check of write_game_data that the document fits, save_archive.rs:125-128
fits_region(len, region_size) == len < region_size

\* A plausible slip: the size recorded in the header before the check.
rejected_write_sized(ar, json_bytes) ==
    [ok |-> FALSE,
     file |-> write_header(ar.file,
                  [ar.header EXCEPT !.game_data_size = Len(json_bytes)]),
     header |-> [ar.header EXCEPT !.game_data_size = Len(json_bytes)],
     image_index |-> ar.image_index]

\* The ensure! of write_game_data fails, save_archive.rs:125-128: the
\* function returns before it touches the file or the header.
rejected_write(ar, json_bytes) == [ar EXCEPT !.ok = FALSE]

\* SaveArchive::write_game_data, save_archive.rs:122-138
write_game_data(ar, data) ==
    LET json_bytes == to_json(data) IN
    IF ~fits_region(Len(json_bytes), ar.header.game_data_region_size)
    THEN rejected_write(ar, json_bytes)
    ELSE LET header == [ar.header EXCEPT !.game_data_size = Len(json_bytes)]
         IN  [ok |-> TRUE,
              file |-> write_header(
                          write_at(ar.file, ar.header.game_data_region_offset,
                                   json_bytes),
                          header),
              header |-> header,
              image_index |-> ar.image_index]

\* A plausible slip in append_image: index_offset not advanced past the image.
next_index_offset_stuck(offset, length) == offset

\* header.index_offset += length, save_archive.rs:148
next_index_offset(offset, length) == offset + length

\* A plausible slip: the new entry put in front of the index.
push_index_front(image_index, entry) == <<entry>> \o image_index

\* self.image_index.push((offset, length)), save_archive.rs:147
push_index(image_index, entry) == Append(image_index, entry)

\* SaveArchive::append_image, save_archive.rs:140-155.  id is the position
\* of the new entry, which the caller in game_context.rs:164 takes as the
\* image's id.
append_image(ar, image_bytes) ==
    LET offset == ar.header.index_offset
        length == Len(image_bytes)
        f1 == set_len(ar.file, offset)
        f2 == write_at(f1, Len(f1), image_bytes)
        image_index == push_index(ar.image_index, <<offset, length>>)
        serialized_index == index_to_vec(image_index)
        f3 == write_at(f2, Len(f2), serialized_index)
        header == [ar.header EXCEPT
                      !.index_offset = next_index_offset(offset, length),
                      !.index_size = Len(serialized_index)]
    IN  [ok |-> TRUE, file |-> write_header(f3, header), header |-> header,
         image_index |-> image_index, id |-> Len(ar.image_index)]

\* The file when append_image stops after one of its writes, before the
\* header is rewritten, save_archive.rs:143-152: after set_len, after the
\* image bytes, after the serialized index.
append_image_file_after(ar, image_bytes, step) ==
    LET offset == ar.header.index_offset
        f1 == set_len(ar.file, offset)
        f2 == write_at(f1, Len(f1), image_bytes)
        image_index == push_index(ar.image_index, <<offset, Len(image_bytes)>>)
        f3 == write_at(f2, Len(f2), index_to_vec(image_index))
    IN  CASE step = "set_len" -> f1
          [] step = "write_image" -> f2
          [] step = "write_index" -> f3

\* A plausible slip in read_game_data: the whole region read, not only the
\* game_data_size cells in use.
json_read_len_region(header) == header.game_data_region_size

\* how many cells read_game_data reads, save_archive.rs:161
json_read_len(header) == header.game_data_size

\* SaveArchive::read_game_data, save_archive.rs:157-166
read_game_data(ar) ==
    IF ~(ar.header.game_data_size > 0) THEN JsonError
    ELSE LET buf == read_exact(ar.file, ar.header.game_data_region_offset,
                               json_read_len(ar.header))
         IN  IF buf.ok THEN from_json(buf.bytes) ELSE JsonError

\* SaveArchive::read_image, save_archive.rs:168-178
read_image(ar, id) ==
    IF ~(id < Len(ar.image_index)) THEN [ok |-> FALSE, bytes |-> <<>>]
    ELSE read_exact(ar.file, ar.image_index[id + 1][1], ar.image_index[id + 1][2])

---------------------------------------------------------------------------
(* Game::update and Game::mk_summary_if_neccessary, game.rs:175-242.  data *)
(* is Game.data: [turn_data, summaries].                                   *)

\* game.rs:23
SUMMARY_INTERVAL == 8

\* Game::new, game.rs:80-89
new_game == [world_description |-> World(0), turn_data |-> <<>>, summaries |-> <<>>]

\* Game::current_turn, game.rs:175-177
current_turn(data) == Len(data.turn_data)

\* A plausible slip in update: the new turn put in front of the history.
push_turn_front(turn_data, t) == <<t>> \o turn_data

\* self.data.turn_data.push(turn_data), game.rs:232
push_turn(turn_data, t) == Append(turn_data, t)

\* A plausible slip: the new summary pushed before the turn is built, which
\* then counts it.
update_summary_first(data, input, output, image_ids, image_captions, summary) ==
    LET summaries == IF summary # None
                     THEN Append(data.summaries,
                                 [content |-> summary,
                                  bday |-> Len(data.turn_data)])
                     ELSE data.summaries
        len == Len(summaries)
        turn == [summary_before_input |-> IF len > 0 THEN len - 1 ELSE None,
                 input |-> input, output |-> output,
                 image_ids |-> image_ids, image_captions |-> image_captions]
    IN  [data EXCEPT !.turn_data = push_turn(data.turn_data, turn),
                     !.summaries = summaries]

\* Game::update, game.rs:214-242; summary is None or the summary's content.
update(data, input, output, image_ids, image_captions, summary) ==
    LET len == Len(data.summaries)
        turn == [summary_before_input |-> IF len > 0 THEN len - 1 ELSE None,
                 input |-> input, output |-> output,
                 image_ids |-> image_ids, image_captions |-> image_captions]
        turn_data == push_turn(data.turn_data, turn)
    IN  [data EXCEPT
            !.turn_data = turn_data,
            !.summaries = IF summary # None
                          THEN Append(data.summaries,
                                      [content |-> summary,
                                       bday |-> Len(turn_data) - 1])
                          ELSE data.summaries]

\* should_summarize of mk_summary_if_neccessary, game.rs:186-190
should_summarize(data) ==
    LET current_turn_ == Len(data.turn_data) - 1 IN
    IF data.summaries # <<>>
    THEN current_turn_ - data.summaries[Len(data.summaries)].bday
             >= SUMMARY_INTERVAL
    ELSE current_turn_ >= SUMMARY_INTERVAL

\* The turns handed to create_new_summary, game.rs:203:
\* self.data.turn_data[tdl - SUMMARY_INTERVAL..tdl]
turns_to_summarize(data) ==
    LET tdl == Len(data.turn_data) IN
    SubSeq(data.turn_data, tdl - SUMMARY_INTERVAL + 1, tdl)

---------------------------------------------------------------------------
(* GameData::construct_request, game.rs:440-572, and the request of        *)
(* create_new_summary, game.rs:286-393.  The game data of the model keeps  *)
(* a turn's texts as integer tags; the text a tag stands for is the tag in *)
(* unary.                                                                  *)

\* lib.rs:8
HIST_SIZE == 8

TagText(tag) == Rep(<<"x">>, tag)

\* The TurnOutput of a stored turn, tags written out as texts.
stored_output(output) ==
    [text |-> TagText(output.text),
     image_description |-> <<"d">>,
     image_caption |-> <<"c">>,
     secret_info |-> TagText(output.secret_info),
     proposed_next_actions |-> [i \in 1..N_PROPOSED_OPTIONS |-> <<"a">>],
     input_tokens |-> 1, output_tokens |-> 3]

\* (0..n), Iterator::rev and Iterator::take
Range(n) == [i \in 1..n |-> i - 1]
Reverse(s) == [i \in 1..Len(s) |-> s[Len(s) + 1 - i]]
Take(s, n) == SubSeq(s, 1, IF n < Len(s) THEN n ELSE Len(s))

\* A plausible slip: the first HIST_SIZE turns taken, the two rev() left out.
history_window_oldest(len) == Take(Range(len), HIST_SIZE)

\* (0..self.turn_data.len()).rev().take(HIST_SIZE).rev(), game.rs:543-546
history_window(len) == Reverse(Take(Reverse(Range(len)), HIST_SIZE))

\* InputMessage::user of format!("turn {i}") and write_to_user_msg_string,
\* or of the latest message with the last secret info; None where a part
\* is not written.
user(turn, input, last_secret) ==
    [role |-> "user",
     content |-> [turn |-> turn, input |-> input, last_secret |-> last_secret]]

\* InputMessage::assistant
assistant(content) == [role |-> "assistant", content |-> content]

\* GameData::construct_request: the summary that goes into the system
\* message (game.rs:444-448, None for "") and the messages.
construct_request(data, input) ==
    LET last_summary ==
            IF data.summaries # <<>>
            THEN [summary |-> data.summaries[Len(data.summaries)].content,
                  summary_turn |-> data.summaries[Len(data.summaries)].bday]
            ELSE [summary |-> None, summary_turn |-> 0]
        window == history_window(Len(data.turn_data))
        messages == Flatten([j \in 1..Len(window) |->
                        LET turn == data.turn_data[window[j] + 1] IN
                        <<user(window[j], turn.input, None),
                          assistant(to_llm_format(stored_output(turn.output)))>>])
        latest_message ==
            user(None, input,
                 IF data.turn_data # <<>>
                 THEN data.turn_data[Len(data.turn_data)].output.secret_info
                 ELSE None)
    IN  [system |-> last_summary,
         messages |-> Append(messages, latest_message),
         max_tokens |-> 5000]

\* No request made yet.
NoRequest ==
    [system |-> [summary |-> None, summary_turn |-> 0], messages |-> <<>>,
     max_tokens |-> 0]

\* What mk_summary_if_neccessary hands to create_new_summary, game.rs:196-205
summary_request(data) ==
    [last_summary |-> IF data.summaries # <<>>
                      THEN data.summaries[Len(data.summaries)].content
                      ELSE None,
     turns |-> turns_to_summarize(data)]

NoSummaryRequest == [last_summary |-> None, turns |-> <<>>]

---------------------------------------------------------------------------
(* The stream of Game::send_to_llm, game.rs:83-173.  st is the state of    *)
(* the generator: the locals of the try_stream! block, the two senders    *)
(* and the chunks yielded so far.                                          *)

\* Option<String>
NoText == [some |-> FALSE, text |-> <<>>]
SomeText(t) == [some |-> TRUE, text |-> t]

\* ResponseFragment, llm.rs, and the other two results of stream.try_next()
TextDelta(f) == [kind |-> "TextDelta", text |-> f]
MessageComplete(text) == [kind |-> "MessageComplete", text |-> text]
StreamError == [kind |-> "Error", text |-> <<>>]
StreamEnd == [kind |-> "End", text |-> <<>>]

\* parse_image_description, game.rs:395-405
parse_image_description(src) ==
    LET parts == split(src, EOID) IN
    IF Len(parts) = 2
    THEN [ok |-> TRUE, description |-> parts[1], caption |-> parts[2]]
    ELSE [ok |-> FALSE, description |-> <<>>, caption |-> <<>>]

\* The locals when the stream is first polled, game.rs:84-98
new_stream ==
    [pc |-> "loop",
     mode |-> "ParsingImageDescription",
     eoi_finder |-> new_finder,
     eoo_finder |-> new_finder,
     image_description |-> <<>>,
     post_eoi_text |-> NoText,
     tx_img_description |-> "Some",
     img_sent |-> 0,
     live |-> <<>>,
     output |-> NoOutput,
     tx_output |-> "pending"]

\* An Err leaves the try_stream! block through `?`: the stream ends and both
\* senders are dropped.
fail(st) == [st EXCEPT !.pc = "error", !.tx_output = "dropped"]

\* A plausible slip: the mode left as it is when <<<EOIC>>> has matched.
mode_after_eoic_unchanged == "ParsingImageDescription"

\* mode = SendToLLMState::StreamingOutputText, game.rs:117
mode_after_eoic == "StreamingOutputText"

\* TextDelta in ParsingImageDescription, game.rs:105-123
on_delta_parsing(st, f) ==
    LET r == process(EOIC, st.eoi_finder, f)
        s1 == [st EXCEPT !.eoi_finder = r.finder]
    IN  CASE r.result.kind = "Blocked" -> s1
          [] r.result.kind = "CheckedOutput" ->
                [s1 EXCEPT !.image_description = @ \o r.result.text]
          [] r.result.kind = "StopTokenMatched" ->
                LET s2 == [s1 EXCEPT
                              !.image_description = @ \o r.result.pre_token_text,
                              !.post_eoi_text = SomeText(r.result.post_token_text),
                              !.mode = mode_after_eoic]
                    description == parse_image_description(s2.image_description)
                IN  IF ~description.ok THEN fail(s2)
                    ELSE IF s2.tx_img_description = "None"
                    THEN [s2 EXCEPT !.pc = "panic", !.tx_output = "dropped"]
                    ELSE [s2 EXCEPT !.tx_img_description = "None",
                                    !.img_sent = @ + 1]

\* TextDelta in StreamingOutputText, game.rs:124-147
on_delta_streaming(st, f) ==
    LET r == process(EOO, st.eoo_finder, f)
        s1 == [st EXCEPT !.eoo_finder = r.finder]
    IN  CASE r.result.kind = "Blocked" -> s1
          [] r.result.kind = "CheckedOutput" ->
                IF s1.post_eoi_text.some
                THEN [s1 EXCEPT
                        !.live = Append(@, s1.post_eoi_text.text \o r.result.text),
                        !.post_eoi_text = NoText]
                ELSE [s1 EXCEPT !.live = Append(@, r.result.text)]
          [] r.result.kind = "StopTokenMatched" ->
                LET processed == r.result.pre_token_text IN
                [s1 EXCEPT
                    !.live = IF processed # <<>> THEN Append(@, processed) ELSE @,
                    !.mode = "FinishingUp"]

\* A plausible slip: the deltas after <<<EOO>>> scanned and streamed on.
on_text_delta_streams_on(st, f) ==
    CASE st.mode = "ParsingImageDescription" -> on_delta_parsing(st, f)
      [] st.mode = "StreamingOutputText" -> on_delta_streaming(st, f)
      [] st.mode = "FinishingUp" -> on_delta_streaming(st, f)

\* ResponseFragment::TextDelta(f), game.rs:103-149
on_text_delta(st, f) ==
    CASE st.mode = "ParsingImageDescription" -> on_delta_parsing(st, f)
      [] st.mode = "StreamingOutputText" -> on_delta_streaming(st, f)
      [] st.mode = "FinishingUp" -> st

\* A plausible slip: the output sent from inside the loop, which goes on.
on_message_complete_in_loop(st, m) ==
    LET output == try_from(m) IN
    IF ~output.ok THEN fail(st)
    ELSE [st EXCEPT !.output = output, !.tx_output = "sent"]

\* ResponseFragment::MessageComplete(m), game.rs:151-155: break output
on_message_complete(st, m) ==
    LET output == try_from(m) IN
    IF ~output.ok THEN fail(st)
    ELSE [st EXCEPT !.output = output, !.pc = "final_poll"]

\* stream.try_next().await?; output ... _ = tx_output.send(output),
\* game.rs:160-164, with e what the poll yields
on_final_poll(st, e) ==
    IF e.kind = "Error" THEN fail(st)
    ELSE [st EXCEPT !.pc = "done", !.tx_output = "sent"]

---------------------------------------------------------------------------
(* A scanner fed an input S = pre \o T \o post in arbitrary chunks, as      *)
(* send_to_llm feeds the TextDelta fragments, until it reports the token.   *)

Targets == {USER_TOKEN, EOO, EOIC}

PadChars(T) == {T[1], T[2], T[Len(T)], "x"}

ScannerInputs(T) ==
    {s \in {pre \o T \o post : pre, post \in SeqsUpTo(PadChars(T), MaxPad)} :
        Cardinality(Occurrences(s, T)) = 1}

IdleFinder ==
    /\ sf_target = <<>>
    /\ sf_input = <<>>
    /\ sf_fed = 0
    /\ sf_finder = new_finder
    /\ sf_checked = <<>>
    /\ sf_last = Blocked

InitFinder ==
    /\ sf_target \in Targets
    /\ sf_input \in ScannerInputs(sf_target)
    /\ sf_fed = 0
    /\ sf_finder = new_finder
    /\ sf_checked = <<>>
    /\ sf_last = Blocked

\* One call matcher.process(chunk) with the next k characters of S.
FeedChunk(k) ==
    /\ sf_last.kind # "StopTokenMatched"
    /\ sf_fed + k <= Len(sf_input)
    /\ LET r == process(sf_target, sf_finder,
                        SubSeq(sf_input, sf_fed + 1, sf_fed + k))
       IN  /\ sf_finder' = r.finder
           /\ sf_last' = r.result
           /\ sf_checked' = sf_checked \o r.result.text
    /\ sf_fed' = sf_fed + k
    /\ UNCHANGED <<sf_target, sf_input>>
    /\ UNCHANGED notFinder

NextFinder == \E k \in 1..Len(sf_input) : FeedChunk(k)

---------------------------------------------------------------------------
(* The codec round trip: a TurnOutput x is encoded with to_llm_format and   *)
(* the text decoded with TurnOutput::try_from.                              *)

\* Field values: plain, with surrounding whitespace, and holding a delimiter.
FieldVals ==
    { <<"a">>,
      <<" ", "b", "\n">>,
      EOO,
      <<"c">> \o EOA }

TurnOutputs ==
    [text : FieldVals, image_description : FieldVals,
     image_caption : FieldVals, secret_info : FieldVals,
     proposed_next_actions : [1..N_PROPOSED_OPTIONS -> FieldVals],
     input_tokens : {1, 2}, output_tokens : {3}]

IdleCodec ==
    /\ codec_pc = "idle"
    /\ codec_x = NoOutput
    /\ codec_text = <<>>
    /\ codec_result = NoOutput

InitCodec ==
    /\ codec_pc = "start"
    /\ codec_x \in TurnOutputs
    /\ codec_text = <<>>
    /\ codec_result = NoOutput

Encode ==
    /\ codec_pc = "start"
    /\ codec_text' = to_llm_format(codec_x)
    /\ codec_pc' = "encoded"
    /\ UNCHANGED <<codec_x, codec_result>>
    /\ UNCHANGED notCodec

Decode ==
    /\ codec_pc = "encoded"
    /\ codec_result' = try_from([text |-> codec_text,
                                 input_tokens |-> codec_x.input_tokens,
                                 output_tokens |-> codec_x.output_tokens])
    /\ codec_pc' = "decoded"
    /\ UNCHANGED <<codec_x, codec_text>>
    /\ UNCHANGED notCodec

NextCodec == Encode \/ Decode

---------------------------------------------------------------------------
(* The archive under any sequence of write_game_data, append_image and     *)
(* close-and-reopen, starting from SaveArchive::create.                    *)

\* The handle as the operations take it.
Archive ==
    [ok |-> TRUE, file |-> ar_file, header |-> ar_header, image_index |-> ar_index]

\* The images of the model: jpeg bytes of length len, in variant v.
ImageBytes(len, v) == [i \in 1..len |-> 10 * v + i]

Images == {ImageBytes(0, 1), ImageBytes(1, 1), ImageBytes(2, 1), ImageBytes(2, 2)}

JsonLen(turns) == Len(to_json(make_sample_game_data(turns, 1)))

\* The longest sample document that write_game_data accepts.
FitTurns ==
    CHOOSE n \in 0..DEFAULT_GAME_DATA_SIZE :
        /\ fits_region(JsonLen(n), DEFAULT_GAME_DATA_SIZE)
        /\ ~fits_region(JsonLen(n + 1), DEFAULT_GAME_DATA_SIZE)

\* Documents written in SpecArchive: short ones, the longest that fits and
\* the shortest that does not.
ArchiveDocs ==
    {make_sample_game_data(n, 1) : n \in {0, 2, FitTurns, FitTurns + 1}}
        \cup {make_sample_game_data(2, 2)}

NothingSaved == [some |-> FALSE, data |-> make_sample_game_data(0, 0), shrunk |-> FALSE]

\* let mut archive = SaveArchive::create(path)?
InitArchive ==
    /\ ar_file = create(DEFAULT_GAME_DATA_SIZE).file
    /\ ar_header = create(DEFAULT_GAME_DATA_SIZE).header
    /\ ar_index = create(DEFAULT_GAME_DATA_SIZE).image_index
    /\ ar_appended = <<>>
    /\ ar_saved = NothingSaved
    /\ ar_last = "create"
    /\ ar_reopen_at = -1

\* archive.write_game_data(&d)
ArWriteGameData(d) ==
    LET r == write_game_data(Archive, d) IN
    /\ ar_file' = r.file
    /\ ar_header' = r.header
    /\ ar_index' = r.image_index
    /\ ar_saved' = IF r.ok
                   THEN [some |-> TRUE, data |-> d,
                         shrunk |-> ar_saved.some /\
                             Len(to_json(d)) < Len(to_json(ar_saved.data))]
                   ELSE ar_saved
    /\ ar_last' = IF r.ok THEN "write_ok" ELSE "write_err"
    /\ UNCHANGED <<ar_appended, ar_reopen_at>>
    /\ UNCHANGED notArchive

\* archive.append_image(&img)
ArAppendImage(img) ==
    LET r == append_image(Archive, img) IN
    /\ Len(ar_appended) < MaxImages
    /\ ar_file' = r.file
    /\ ar_header' = r.header
    /\ ar_index' = r.image_index
    /\ ar_appended' = Append(ar_appended, img)
    /\ ar_last' = "append"
    /\ UNCHANGED <<ar_saved, ar_reopen_at>>
    /\ UNCHANGED notArchive

\* the handle is dropped and the file opened again: SaveArchive::open(path)
ArReopen ==
    LET r == open(ar_file) IN
    /\ ar_header' = r.header
    /\ ar_index' = r.image_index
    /\ ar_last' = IF r.ok THEN "reopen" ELSE "open_err"
    /\ ar_reopen_at' = Len(ar_appended)
    /\ UNCHANGED <<ar_file, ar_appended, ar_saved>>
    /\ UNCHANGED notArchive

\* archive.read_image(id), for the ids in use and one past them
ArReadImage(id) ==
    /\ ar_last' = IF read_image(Archive, id).ok
                  THEN "read_image_ok" ELSE "read_image_err"
    /\ UNCHANGED <<ar_file, ar_header, ar_index, ar_appended, ar_saved,
                   ar_reopen_at>>
    /\ UNCHANGED notArchive

\* archive.read_game_data()
ArReadGameData ==
    /\ ar_last' = IF read_game_data(Archive).ok
                  THEN "read_data_ok" ELSE "read_data_err"
    /\ UNCHANGED <<ar_file, ar_header, ar_index, ar_appended, ar_saved,
                   ar_reopen_at>>
    /\ UNCHANGED notArchive

\* append_image stops after one of its writes (the process ends), and the
\* file is opened again: SaveArchive::open(path)
ArAppendImageInterrupted(img, step) ==
    LET r == open(append_image_file_after(Archive, img, step)) IN
    /\ ar_last # "open_err"
    /\ ar_file' = r.file
    /\ ar_header' = r.header
    /\ ar_index' = r.image_index
    /\ ar_last' = IF r.ok THEN "reopen" ELSE "open_err"
    /\ ar_reopen_at' = Len(ar_appended)
    /\ UNCHANGED <<ar_appended, ar_saved>>
    /\ UNCHANGED notArchive

AppendImageSteps == {"set_len", "write_image", "write_index"}

\* Images appended, with append_image stopped part-way any number of times.
NextInterrupted ==
    \/ \E img \in Images : ar_last # "open_err" /\ ArAppendImage(img)
    \/ \E img \in Images, step \in AppendImageSteps :
            ArAppendImageInterrupted(img, step)

NextArchive ==
    \/ \E d \in ArchiveDocs : ArWriteGameData(d)
    \/ \E img \in Images : ArAppendImage(img)
    \/ ArReopen
    \/ \E id \in 0..Len(ar_appended) : ArReadImage(id)
    \/ ArReadGameData

---------------------------------------------------------------------------
(* Game::update called with arbitrary turns on a fresh session.            *)

\* The turns of the model: texts are integer tags, as in the game data.
TurnTags == {1, 2}
SummaryArgs == {None, 7}

Game ==
    [world_description |-> gm_world, turn_data |-> gm_turn_data,
     summaries |-> gm_summaries]

IdleGame ==
    /\ gm_turn_data = <<>>
    /\ gm_summaries = <<>>
    /\ gm_passed = <<>>
    /\ gm_world = World(0)

\* Game::new
InitGame ==
    /\ gm_turn_data = new_game.turn_data
    /\ gm_summaries = new_game.summaries
    /\ gm_passed = <<>>
    /\ gm_world = World(0)

\* game.update(input, output, nonempty![id], nonempty![caption], summary)
GameUpdate(input, text, summary) ==
    LET output == [text |-> text, secret_info |-> input]
        image_ids == <<current_turn(Game)>>
        image_captions == <<text>>
        r == update(Game, input, output, image_ids, image_captions, summary)
    IN  /\ current_turn(Game) < MaxUpdates
        /\ gm_turn_data' = r.turn_data
        /\ gm_summaries' = r.summaries
        /\ gm_passed' = Append(gm_passed,
                               [input |-> input, output |-> output,
                                image_ids |-> image_ids,
                                image_captions |-> image_captions])
        /\ UNCHANGED gm_world
        /\ UNCHANGED notGame

NextGame ==
    \E input \in TurnTags, text \in TurnTags, summary \in SummaryArgs :
        GameUpdate(input, text, summary)

---------------------------------------------------------------------------
(* GameContext::update, game_context.rs:97-216: the messages of one        *)
(* session that commit turns.  A turn's texts are tags derived from its    *)
(* index; its image is one byte.                                           *)

NoTasks ==
    [output |-> "none", image |-> "none", summary |-> "none", stream |-> "none"]

\* The variant of SubState and, of WaitingForOutput, which results are in;
\* stream_buffer is the number of text fragments pushed to it.
SubState(kind, output, image) ==
    [kind |-> kind, output |-> output, image |-> image, stream_buffer |-> 0]

Uninit == SubState("Uninit", FALSE, FALSE)

\* The payload of sub states Complete { turn_data } and InThePast
\* { completed_turn, data }, game_context.rs:42-45 and 62-66; the other sub
\* states hold no TurnData.
NoTurnData ==
    [summary_before_input |-> None, input |-> None,
     output |-> [text |-> None, secret_info |-> None],
     image_ids |-> <<>>, image_captions |-> <<>>]

SubData(completed_turn, data) == [completed_turn |-> completed_turn, data |-> data]

NoSubData == SubData(None, NoTurnData)

Handled(msg, ok) == [msg |-> msg, ok |-> ok]

IdleContext ==
    /\ ctx_sub_state = Uninit
    /\ ctx_tasks = NoTasks
    /\ ctx_last = Handled("idle", TRUE)
    /\ ctx_request = NoRequest
    /\ ctx_summary_request = NoSummaryRequest
    /\ ctx_sub_data = NoSubData

\* Game::new, SaveArchive::create, GameContext::try_new on an empty game
\* (game_context.rs:86-94) as start_new_game.rs:52 calls them.
InitContext ==
    /\ InitGame
    /\ InitArchive
    /\ ctx_sub_state = Uninit
    /\ ctx_tasks = NoTasks
    /\ ctx_last = Handled("try_new", TRUE)
    /\ ctx_request = NoRequest
    /\ ctx_summary_request = NoSummaryRequest
    /\ ctx_sub_data = NoSubData

\* The turn that is running: its index, and what the engine returns for it.
RunningTurn == current_turn(Game)
TurnImage == ImageBytes(1, 1)
TurnSummary == 100 + RunningTurn

\* The three tasks of an AdvanceResult, game_context.rs:109-111 and 344-348.
TurnTasks ==
    [output |-> "pending", image |-> "pending", summary |-> "none",
     stream |-> "pending"]

\* ContextMessage::Init, game_context.rs:100-130, sent once by
\* start_new_game.rs:55
CtxInit ==
    /\ ctx_last = Handled("try_new", TRUE)
    /\ IF gm_turn_data = <<>>
       THEN /\ ctx_sub_state' = SubState("WaitingForOutput", FALSE, FALSE)
            /\ ctx_tasks' = TurnTasks
            /\ ctx_request' = construct_request(Game, RunningTurn)
            /\ ctx_sub_data' = NoSubData
       ELSE /\ ctx_sub_state' = SubState("Complete", FALSE, FALSE)
            /\ ctx_sub_data' = SubData(None, gm_turn_data[Len(gm_turn_data)])
            /\ ctx_tasks' = ctx_tasks
            /\ ctx_request' = ctx_request
    /\ ctx_last' = Handled("Init", TRUE)
    /\ UNCHANGED ctx_summary_request
    /\ UNCHANGED <<gameVars, archiveVars>>
    /\ UNCHANGED notContext

\* GameContext::generate_new_turn, game_context.rs:330-350; the input box
\* is shown in sub state Complete only (state/playing.rs:239).
GenerateNewTurn ==
    /\ ctx_sub_state.kind = "Complete"
    /\ current_turn(Game) < MaxTurns
    /\ ctx_sub_state' = SubState("WaitingForOutput", FALSE, FALSE)
    /\ ctx_tasks' = TurnTasks
    /\ ctx_last' = Handled("generate_new_turn", TRUE)
    /\ ctx_request' = construct_request(Game, RunningTurn)
    /\ ctx_sub_data' = NoSubData
    /\ UNCHANGED ctx_summary_request
    /\ UNCHANGED <<gameVars, archiveVars>>
    /\ UNCHANGED notContext

\* A plausible slip: the turn shown as complete as soon as both are in.
request_summary_sub_state_complete == SubState("Complete", FALSE, FALSE)

\* GameContext::request_summary, game_context.rs:312-328: the sub state and
\* the future of mk_summary_if_neccessary, which decides when it is called.
request_summary_sub_state == SubState("WaitingForSummary", TRUE, TRUE)
request_summary_task ==
    IF should_summarize(Game) THEN "summary" ELSE "absent"

\* ContextMessage::OutputComplete, game_context.rs:132-154
OutputComplete(ok) ==
    /\ ctx_tasks.output = "pending"
    /\ IF ~ok
       THEN /\ ctx_sub_state' = ctx_sub_state
            /\ ctx_tasks' = [ctx_tasks EXCEPT !.output = "none"]
       ELSE IF ctx_sub_state.kind # "WaitingForOutput"
       THEN /\ ctx_sub_state' = Uninit
            /\ ctx_tasks' = [ctx_tasks EXCEPT !.output = "none"]
       ELSE IF ctx_sub_state.image
       THEN /\ ctx_sub_state' = request_summary_sub_state
            /\ ctx_tasks' = [ctx_tasks EXCEPT !.output = "none",
                                              !.summary = request_summary_task]
       ELSE /\ ctx_sub_state' = [ctx_sub_state EXCEPT !.output = TRUE]
            /\ ctx_tasks' = [ctx_tasks EXCEPT !.output = "none"]
    /\ ctx_summary_request' =
            IF ok /\ ctx_sub_state.kind = "WaitingForOutput" /\ ctx_sub_state.image
                  /\ should_summarize(Game)
            THEN summary_request(Game) ELSE ctx_summary_request
    /\ ctx_sub_data' = IF ctx_sub_state' = ctx_sub_state THEN ctx_sub_data
                       ELSE NoSubData
    /\ ctx_last' = Handled("OutputComplete",
                           ok /\ ctx_sub_state.kind = "WaitingForOutput")
    /\ UNCHANGED ctx_request
    /\ UNCHANGED <<gameVars, archiveVars>>
    /\ UNCHANGED notContext

\* ContextMessage::ImageReady, game_context.rs:188-214
ImageReady(ok) ==
    /\ ctx_tasks.image = "pending"
    /\ IF ~ok
       THEN /\ ctx_sub_state' = ctx_sub_state
            /\ ctx_tasks' = [ctx_tasks EXCEPT !.image = "none"]
       ELSE IF ctx_sub_state.kind # "WaitingForOutput"
       THEN /\ ctx_sub_state' = Uninit
            /\ ctx_tasks' = [ctx_tasks EXCEPT !.image = "none"]
       ELSE IF ctx_sub_state.output
       THEN /\ ctx_sub_state' = request_summary_sub_state
            /\ ctx_tasks' = [ctx_tasks EXCEPT !.image = "none",
                                              !.summary = request_summary_task]
       ELSE /\ ctx_sub_state' = [ctx_sub_state EXCEPT !.image = TRUE]
            /\ ctx_tasks' = [ctx_tasks EXCEPT !.image = "none"]
    /\ ctx_summary_request' =
            IF ok /\ ctx_sub_state.kind = "WaitingForOutput" /\ ctx_sub_state.output
                  /\ should_summarize(Game)
            THEN summary_request(Game) ELSE ctx_summary_request
    /\ ctx_sub_data' = IF ctx_sub_state' = ctx_sub_state THEN ctx_sub_data
                       ELSE NoSubData
    /\ ctx_last' = Handled("ImageReady",
                           ok /\ ctx_sub_state.kind = "WaitingForOutput")
    /\ UNCHANGED ctx_request
    /\ UNCHANGED <<gameVars, archiveVars>>
    /\ UNCHANGED notContext

\* ContextMessage::SummaryFinished(Err(_)), game_context.rs:157: the request
\* of create_new_summary failed and the handler returns at `message?`.
SummaryFailed ==
    /\ ctx_tasks.summary = "summary"
    /\ ctx_tasks' = [ctx_tasks EXCEPT !.summary = "none"]
    /\ ctx_last' = Handled("SummaryFinished", FALSE)
    /\ UNCHANGED <<ctx_sub_state, ctx_sub_data, ctx_request, ctx_summary_request, gameVars,
                   archiveVars>>
    /\ UNCHANGED notContext

\* ContextMessage::SummaryFinished(Ok(summary_msg)), game_context.rs:156-178:
\* the image appended, the turn pushed by Game::update, the game data saved.
SummaryFinished ==
    /\ ctx_tasks.summary \in {"summary", "absent"}
    /\ ctx_sub_state.kind = "WaitingForSummary"
    /\ LET summary == IF ctx_tasks.summary = "summary" THEN TurnSummary ELSE None
           a1 == append_image(Archive, TurnImage)
           data == update(Game, RunningTurn,
                          [text |-> RunningTurn, secret_info |-> RunningTurn],
                          <<a1.id>>, <<RunningTurn>>, summary)
           a2 == write_game_data(a1, data)
       IN  /\ gm_turn_data' = data.turn_data
           /\ gm_summaries' = data.summaries
           /\ gm_passed' = Append(gm_passed,
                               [input |-> RunningTurn,
                                output |-> [text |-> RunningTurn,
                                            secret_info |-> RunningTurn],
                                image_ids |-> <<a1.id>>,
                                image_captions |-> <<RunningTurn>>])
           /\ ar_file' = a2.file
           /\ ar_header' = a2.header
           /\ ar_index' = a2.image_index
           /\ ar_appended' = Append(ar_appended, TurnImage)
           /\ ar_saved' = IF a2.ok
                          THEN [some |-> TRUE, data |-> data, shrunk |-> FALSE]
                          ELSE ar_saved
           /\ ar_last' = IF a2.ok THEN "write_ok" ELSE "write_err"
           /\ ctx_sub_state' = IF a2.ok THEN SubState("Complete", FALSE, FALSE)
                               ELSE Uninit
           /\ ctx_sub_data' =
                 IF a2.ok THEN SubData(None, data.turn_data[Len(data.turn_data)])
                 ELSE NoSubData
           /\ ctx_last' = Handled("SummaryFinished", a2.ok)
    /\ ctx_tasks' = [ctx_tasks EXCEPT !.summary = "none"]
    /\ UNCHANGED <<ar_reopen_at, ctx_request, ctx_summary_request, gm_world>>
    /\ UNCHANGED notContext

\* ContextMessage::NewTextFragment, game_context.rs:180-186, sent by the
\* task that runs text_stream (line 111, 347): the fragment pushed to the
\* stream_buffer of WaitingForOutput (stream_buffer_mut, 448-454) and to
\* the text on screen; an error in any other sub state.
NewTextFragment(ok) ==
    /\ ctx_tasks.stream = "pending"
    /\ ctx_sub_state.stream_buffer < MaxFragments
    /\ IF ok /\ ctx_sub_state.kind = "WaitingForOutput"
       THEN /\ ctx_sub_state' =
                  [ctx_sub_state EXCEPT !.stream_buffer = @ + 1]
            /\ ctx_last' = Handled("NewTextFragment", TRUE)
       ELSE /\ ctx_sub_state' = ctx_sub_state
            /\ ctx_last' = Handled("NewTextFragment", FALSE)
    /\ UNCHANGED <<ctx_tasks, ctx_sub_data, ctx_request, ctx_summary_request,
                   gameVars, archiveVars>>
    /\ UNCHANGED notContext

\* text_stream ends: the task of Task::run sends no more messages.
TextStreamEnds ==
    /\ ctx_tasks.stream = "pending"
    /\ ctx_tasks' = [ctx_tasks EXCEPT !.stream = "none"]
    /\ UNCHANGED <<ctx_sub_state, ctx_last, ctx_sub_data, ctx_request,
                   ctx_summary_request, gameVars, archiveVars>>
    /\ UNCHANGED notContext

NextContext ==
    \/ CtxInit
    \/ GenerateNewTurn
    \/ \E ok \in BOOLEAN : OutputComplete(ok)
    \/ \E ok \in BOOLEAN : ImageReady(ok)
    \/ SummaryFailed
    \/ SummaryFinished

\* A turn with its three tasks: the text fragments, the output and the
\* image in any order of arrival, then the summary.
NextJoin ==
    \/ NextContext
    \/ \E ok \in BOOLEAN : NewTextFragment(ok)
    \/ TextStreamEnds

---------------------------------------------------------------------------
(* Going back through the committed turns and loading the game from one of *)
(* them: load_completed_turn, load_prev_turn, load_next_turn and           *)
(* load_from_current_past, game_context.rs:233-391.                        *)

\* SaveArchive::clip_after_turn(completed_turn): the stored game data with
\* its turn history cut after the given turn, written back; the images and
\* their index are left alone.
clip_after_turn(ar, completed_turn) ==
    LET stored == read_game_data(ar) IN
    IF ~stored.ok THEN [ar EXCEPT !.ok = FALSE]
    ELSE write_game_data(ar,
             [stored.value EXCEPT
                 !.turn_data = Take(stored.value.turn_data, completed_turn + 1)])

\* A plausible slip: the sub state left InThePast after the game is loaded.
sub_state_after_load_in_the_past == SubState("InThePast", FALSE, FALSE)

\* self.sub_state = Complete { turn_data: data }.into(), game_context.rs:389
sub_state_after_load == SubState("Complete", FALSE, FALSE)

\* Turns that rewinds have cut from the history: their images stay.
Discarded == Len(ar_index) - current_turn(Game)

\* GameContext::load_completed_turn, game_context.rs:233-260.  A target
\* below 0 stands for target_turn after the usize subtraction of the caller
\* went below zero: a panic, or a wrapped index that get() does not find.
load_completed_turn(target_turn, msg) ==
    LET known == target_turn >= 0 /\ target_turn < Len(gm_turn_data)
        turn_data == gm_turn_data[target_turn + 1]
        ok == known /\ read_image(Archive, turn_data.image_ids[1]).ok
    IN  /\ ctx_last' = Handled(msg, ok)
        /\ IF ~ok
           THEN UNCHANGED <<ctx_sub_state, ctx_sub_data>>
           ELSE IF target_turn + 1 = current_turn(Game)
           THEN /\ ctx_sub_state' = SubState("Complete", FALSE, FALSE)
                /\ ctx_sub_data' = SubData(None, turn_data)
           ELSE /\ ctx_sub_state' = SubState("InThePast", FALSE, FALSE)
                /\ ctx_sub_data' = SubData(target_turn, turn_data)
        /\ UNCHANGED <<ctx_tasks, ctx_request, ctx_summary_request, gameVars,
                       archiveVars>>
        /\ UNCHANGED notContext

\* let target_turn = match &self.sub_state { .. }, game_context.rs:353-364,
\* as the number the subtraction has in the integers.
load_prev_turn_target ==
    IF ctx_sub_state.kind = "Complete" THEN current_turn(Game) - 2
    ELSE ctx_sub_data.completed_turn - 1

\* GameContext::load_prev_turn, game_context.rs:352-365
LoadPrevTurn ==
    /\ ctx_sub_state.kind \in {"Complete", "InThePast"}
    /\ load_completed_turn(load_prev_turn_target, "load_prev_turn")

\* GameContext::load_next_turn, game_context.rs:367-379
LoadNextTurn ==
    /\ ctx_sub_state.kind = "InThePast"
    /\ load_completed_turn(ctx_sub_data.completed_turn + 1, "load_next_turn")

\* GameContext::load_from_current_past, game_context.rs:381-391
LoadFromCurrentPast ==
    /\ ctx_sub_state.kind = "InThePast"
    /\ Discarded + current_turn(Game) - (ctx_sub_data.completed_turn + 1)
          <= MaxDiscarded
    /\ LET clipped == clip_after_turn(Archive, ctx_sub_data.completed_turn)
           stored == read_game_data(clipped)
           ok == clipped.ok /\ stored.ok
       IN  /\ ar_file' = clipped.file
           /\ ar_header' = clipped.header
           /\ ar_index' = clipped.image_index
           /\ ar_saved' = IF ok THEN [some |-> TRUE, data |-> stored.value,
                                      shrunk |-> TRUE]
                          ELSE ar_saved
           /\ ar_last' = IF clipped.ok THEN "clip_ok" ELSE "clip_err"
           /\ gm_turn_data' = IF ok THEN stored.value.turn_data ELSE gm_turn_data
           /\ gm_summaries' = IF ok THEN stored.value.summaries ELSE gm_summaries
           /\ gm_world' = IF ok THEN stored.value.world_description ELSE gm_world
           /\ ctx_sub_state' = IF ok THEN sub_state_after_load ELSE Uninit
           /\ ctx_sub_data' = IF ok THEN SubData(None, ctx_sub_data.data)
                              ELSE NoSubData
           /\ ctx_last' = Handled("load_from_current_past", ok)
    /\ UNCHANGED <<ar_appended, ar_reopen_at, gm_passed, ctx_tasks, ctx_request,
                   ctx_summary_request>>
    /\ UNCHANGED notContext

\* A plausible slip: the completed turn given as the current turn.
ctx_current_turn_completed ==
    IF ctx_sub_state.kind = "InThePast" THEN ctx_sub_data.completed_turn
    ELSE current_turn(Game)

\* GameContext::current_turn, game_context.rs:223-231
ctx_current_turn ==
    IF ctx_sub_state.kind = "InThePast" THEN ctx_sub_data.completed_turn + 1
    ELSE current_turn(Game)

\* GotoTurnPressed and GoToCurrentTurn, state/playing.rs:120-133: the
\* context asked for a completed turn by its number.
GoToTurn(target_turn) ==
    /\ ctx_sub_state.kind \in {"Complete", "InThePast"}
    /\ load_completed_turn(target_turn, "load_completed_turn")

NextNavigate ==
    \/ NextContext
    \/ LoadPrevTurn
    \/ LoadNextTurn
    \/ \E k \in 0..(MaxTurns + 1) : GoToTurn(k)

NextRewind ==
    \/ NextContext
    \/ LoadPrevTurn
    \/ LoadNextTurn
    \/ LoadFromCurrentPast

---------------------------------------------------------------------------
(* Editing the shown turn and the world in place: update_hidden_info,      *)
(* update_output and upate_world_description, game_context.rs:264-310 and  *)
(* 440-444.  Each changes self.game.data and then saves it.                *)

\* The text that the player types into the editor of a turn: a tag that no
\* generated turn has.
EditedText == MaxTurns + 10

\* The world description that the world editor hands back.
EditedWorld == World(2)

\* The 1-based place in turn_data of the turn that the sub state shows:
\* turn_data[*completed_turn] in InThePast, turn_data.last_mut() in Complete.
shown_turn(sub_state, sub_data, data) ==
    IF sub_state.kind = "InThePast" THEN sub_data.completed_turn + 1
    ELSE Len(data.turn_data)

\* The match of GameContext::update_hidden_info, game_context.rs:265-284:
\* the turn kept in the sub state and the turn of the game data.
update_hidden_info(sub_state, sub_data, data, val) ==
    [sub_data |-> [sub_data EXCEPT !.data.output.secret_info = val],
     data |-> LET shown == shown_turn(sub_state, sub_data, data) IN
              [data EXCEPT !.turn_data[shown].output.secret_info = val]]

\* The match of GameContext::update_output, game_context.rs:291-303.  In
\* InThePast the text of both turns is set; in Complete line 299 assigns
\* turn_data.output.secret_info of the sub state and line 300 the text of
\* the last turn of the game data.
update_output(sub_state, sub_data, data, val) ==
    [sub_data |-> IF sub_state.kind = "InThePast"
                  THEN [sub_data EXCEPT !.data.output.text = val]
                  ELSE [sub_data EXCEPT !.data.output.secret_info = val],
     data |-> LET shown == shown_turn(sub_state, sub_data, data) IN
              [data EXCEPT !.turn_data[shown].output.text = val]]

\* GameContext::hidden_info, game_context.rs:393-399
hidden_info == ctx_sub_data.data.output.secret_info

\* A plausible slip: the game data saved as it was before the edit.
data_to_save_before(before, after) == before

\* self.save.write_game_data(&self.game.data), game_context.rs:286, 308, 442:
\* called after the assignments, so with the edited data.
data_to_save(before, after) == after

\* The end of the three edits: the edited game data kept in memory, then
\* saved; an error of the save is returned with the edit made.
SaveEdited(msg, sub_data, data) ==
    LET to_save == data_to_save(Game, data)
        r == write_game_data(Archive, to_save)
    IN  /\ gm_turn_data' = data.turn_data
        /\ gm_summaries' = data.summaries
        /\ gm_world' = data.world_description
        /\ ctx_sub_data' = sub_data
        /\ ar_file' = r.file
        /\ ar_header' = r.header
        /\ ar_index' = r.image_index
        /\ ar_saved' = IF r.ok
                       THEN [some |-> TRUE, data |-> to_save, shrunk |-> FALSE]
                       ELSE ar_saved
        /\ ar_last' = IF r.ok THEN "write_ok" ELSE "write_err"
        /\ ctx_last' = Handled(msg, r.ok)
        /\ UNCHANGED <<ar_appended, ar_reopen_at, gm_passed, ctx_sub_state,
                       ctx_tasks, ctx_request, ctx_summary_request>>
        /\ UNCHANGED notContext

\* `other => bail!(..)`, game_context.rs:283, 302: no turn is shown.
EditRefused(msg) ==
    /\ ctx_last' = Handled(msg, FALSE)
    /\ UNCHANGED <<ctx_sub_state, ctx_sub_data, ctx_tasks, ctx_request,
                   ctx_summary_request, gameVars, archiveVars>>
    /\ UNCHANGED notContext

\* The turns of a session that the model edits: the first ones.
Editable ==
    ctx_sub_state.kind \in {"Complete", "InThePast"}
        => shown_turn(ctx_sub_state, ctx_sub_data, Game) <= MaxEditedTurns

\* GameContext::update_hidden_info, game_context.rs:264-288
UpdateHiddenInfo(val) ==
    /\ Editable
    /\ IF ctx_sub_state.kind \in {"Complete", "InThePast"}
       THEN LET edited == update_hidden_info(ctx_sub_state, ctx_sub_data, Game, val)
            IN  SaveEdited("update_hidden_info", edited.sub_data, edited.data)
       ELSE EditRefused("update_hidden_info")

\* GameContext::update_output, game_context.rs:290-310
UpdateOutput(val) ==
    /\ Editable
    /\ IF ctx_sub_state.kind \in {"Complete", "InThePast"}
       THEN LET edited == update_output(ctx_sub_state, ctx_sub_data, Game, val)
            IN  SaveEdited("update_output", edited.sub_data, edited.data)
       ELSE EditRefused("update_output")

\* GameContext::upate_world_description, game_context.rs:440-444
UpdateWorldDescription(world) ==
    SaveEdited("upate_world_description", ctx_sub_data,
               [Game EXCEPT !.world_description = world])

NextEdit ==
    \/ NextContext
    \/ LoadPrevTurn
    \/ LoadNextTurn
    \/ UpdateHiddenInfo(EditedText)
    \/ UpdateOutput(EditedText)
    \/ UpdateWorldDescription(EditedWorld)

---------------------------------------------------------------------------
(* One run of the stream of send_to_llm against a response stream that     *)
(* yields any sequence of fragments.                                       *)

\* Text deltas: a whole image part with the start of the narrative, the
\* rest of a narrative with its end token, the two halves of an end token
\* of either kind, and plain text.
Deltas ==
    { <<"d">> \o EOID \o <<"c">> \o EOIC \o <<"H", "e">>,
      <<"l", "l", "o">> \o EOO \o <<"s">>,
      SubSeq(EOIC, 1, 5),
      SubSeq(EOIC, 6, Len(EOIC)),
      SubSeq(EOO, 6, Len(EOO)),
      <<"x">> }

\* Full texts of MessageComplete: one that decodes and one that does not.
FullText ==
    <<"d">> \o EOID \o <<"c">> \o EOIC \o <<"t">> \o EOO \o <<"s">> \o EOS
        \o <<"1">> \o EOA \o <<"2">> \o EOA \o <<"3">>

Messages == {FullText, <<"x">>}

OutputMessage(text) == [text |-> text, input_tokens |-> 1, output_tokens |-> 3]

\* What a poll of the response stream can yield.
Fragments ==
    {TextDelta(f) : f \in Deltas} \cup {MessageComplete(m) : m \in Messages}
PollResults == Fragments \cup {StreamError, StreamEnd}

Stream ==
    [pc |-> tn_pc, mode |-> tn_mode, eoi_finder |-> tn_eoi_finder,
     eoo_finder |-> tn_eoo_finder, image_description |-> tn_image_description,
     post_eoi_text |-> tn_post_eoi_text,
     tx_img_description |-> tn_tx_img_description, img_sent |-> tn_img_sent,
     live |-> tn_live, output |-> tn_output, tx_output |-> tn_tx_output]

\* The generator state st as the values of the variables.
StreamIs(st) ==
    /\ tn_pc = st.pc
    /\ tn_mode = st.mode
    /\ tn_eoi_finder = st.eoi_finder
    /\ tn_eoo_finder = st.eoo_finder
    /\ tn_image_description = st.image_description
    /\ tn_post_eoi_text = st.post_eoi_text
    /\ tn_tx_img_description = st.tx_img_description
    /\ tn_img_sent = st.img_sent
    /\ tn_live = st.live
    /\ tn_output = st.output
    /\ tn_tx_output = st.tx_output

StreamBecomes(st) ==
    /\ tn_pc' = st.pc
    /\ tn_mode' = st.mode
    /\ tn_eoi_finder' = st.eoi_finder
    /\ tn_eoo_finder' = st.eoo_finder
    /\ tn_image_description' = st.image_description
    /\ tn_post_eoi_text' = st.post_eoi_text
    /\ tn_tx_img_description' = st.tx_img_description
    /\ tn_img_sent' = st.img_sent
    /\ tn_live' = st.live
    /\ tn_output' = st.output
    /\ tn_tx_output' = st.tx_output

IdleTurn ==
    /\ StreamIs([new_stream EXCEPT !.pc = "idle"])
    /\ tn_polls = 0
    /\ tn_ended = FALSE
    /\ tn_retained = NoText
    /\ tn_final = "none"
    /\ tn_decoded = "none"

\* game.send_to_llm(input, ..): the stream before its first poll
InitTurn ==
    /\ StreamIs(new_stream)
    /\ tn_polls = 0
    /\ tn_ended = FALSE
    /\ tn_retained = NoText
    /\ tn_final = "none"
    /\ tn_decoded = "none"

\* stream.try_next() in the loop can be polled: the generator is in the loop
\* and the source has something left.
CanPoll ==
    /\ tn_pc = "loop"
    /\ tn_polls < MaxPolls

\* stream.try_next().await? yields Some(TextDelta(f)), game.rs:100-149
PollTextDelta(f) ==
    /\ CanPoll /\ ~tn_ended
    /\ LET st == on_text_delta(Stream, f) IN
       /\ StreamBecomes(st)
       /\ tn_retained' = IF ~Stream.post_eoi_text.some /\ st.post_eoi_text.some
                         THEN st.post_eoi_text ELSE tn_retained
    /\ tn_polls' = tn_polls + 1
    /\ UNCHANGED <<tn_ended, tn_final, tn_decoded>>
    /\ UNCHANGED notTurn

\* stream.try_next().await? yields Some(MessageComplete(m)), game.rs:151-155
PollMessageComplete(m) ==
    /\ CanPoll /\ ~tn_ended
    /\ StreamBecomes(on_message_complete(Stream, OutputMessage(m)))
    /\ tn_decoded' = LET output == try_from(OutputMessage(m)) IN
                      IF output.ok THEN "ok" ELSE output.error
    /\ tn_polls' = tn_polls + 1
    /\ UNCHANGED <<tn_ended, tn_retained, tn_final>>
    /\ UNCHANGED notTurn

\* stream.try_next().await? is an Err, game.rs:100
PollError ==
    /\ CanPoll /\ ~tn_ended
    /\ StreamBecomes(fail(Stream))
    /\ tn_polls' = tn_polls + 1
    /\ UNCHANGED <<tn_ended, tn_retained, tn_final, tn_decoded>>
    /\ UNCHANGED notTurn

\* stream.try_next().await? yields None, game.rs:100: the `if let` does not
\* match and the loop polls again.
PollEnd ==
    /\ CanPoll
    /\ tn_polls' = tn_polls + 1
    /\ tn_ended' = TRUE
    /\ UNCHANGED <<tn_pc, tn_mode, tn_eoi_finder, tn_eoo_finder,
                   tn_image_description, tn_post_eoi_text,
                   tn_tx_img_description, tn_img_sent, tn_live, tn_output,
                   tn_tx_output, tn_retained, tn_final, tn_decoded>>
    /\ UNCHANGED notTurn

\* The poll after the loop and the send of the output, game.rs:159-164
FinalPoll(e) ==
    /\ tn_pc = "final_poll"
    /\ StreamBecomes(on_final_poll(Stream, e))
    /\ tn_final' = e.kind
    /\ UNCHANGED <<tn_polls, tn_ended, tn_retained, tn_decoded>>
    /\ UNCHANGED notTurn

NextTurn ==
    \/ \E f \in Deltas : PollTextDelta(f)
    \/ \E m \in Messages : PollMessageComplete(m)
    \/ PollError
    \/ PollEnd
    \/ \E e \in PollResults : FinalPoll(e)

---------------------------------------------------------------------------
(* TurnOutput::try_from applied to the full text of a MessageComplete that  *)
(* is well formed or not: each of the four delimiters absent, present once *)
(* or repeated at its place, a stray delimiter in front or at the end, and *)
(* any number of <<<EOA>>> separators.                                     *)

\* The i-th proposed action as the model writes it, padded with whitespace.
ActionText(i) == <<" ", "p", "\n">> \o Rep(<<"q">>, i)

RECURSIVE ActionSegments(_)
ActionSegments(nsep) ==
    IF nsep = 0 THEN ActionText(0)
    ELSE ActionSegments(nsep - 1) \o EOA \o ActionText(nsep)

MessageText(cnt, nsep, stray, front) ==
    LET body == <<" ", "d">> \o Rep(EOID, cnt[1])
                    \o <<"c", "\n">> \o Rep(EOIC, cnt[2])
                    \o <<"\n", "t", " ">> \o Rep(EOO, cnt[3])
                    \o <<"s">> \o Rep(EOS, cnt[4])
                    \o ActionSegments(nsep)
    IN  IF front THEN stray \o body ELSE body \o stray

MessageTexts ==
    {MessageText(cnt, nsep, stray, front) :
        cnt \in [1..4 -> 0..MaxRepeat], nsep \in 0..MaxActionSeps,
        stray \in {<<>>, EOID, EOIC, EOO, EOS}, front \in BOOLEAN}

\* ResponseFragment::MessageComplete(m) has arrived with m.text
InitDecode ==
    /\ codec_pc = "message"
    /\ codec_x = NoOutput
    /\ codec_text \in MessageTexts
    /\ codec_result = NoOutput

\* let output = TurnOutput::try_from(m), game.rs:153
DecodeMessage ==
    /\ codec_pc = "message"
    /\ codec_result' = try_from(OutputMessage(codec_text))
    /\ codec_pc' = "message_decoded"
    /\ UNCHANGED <<codec_x, codec_text>>
    /\ UNCHANGED notCodec

NextDecode == DecodeMessage

---------------------------------------------------------------------------
(* The stream of send_to_llm given one whole response: the text arrives as *)
(* TextDelta fragments cut at arbitrary places, then MessageComplete with  *)
(* the full text (claude_api.rs:114-121: text is the pushed deltas), then  *)
(* the end of the response stream.                                         *)

\* A response as to_llm_format writes it, lines around the delimiters.
SampleResponse ==
    to_llm_format([image_description |-> <<"d">>, image_caption |-> <<"c">>,
                   text |-> <<"t", "u">>, secret_info |-> <<"s">>,
                   proposed_next_actions |-> <<<<"1">>, <<"2">>, <<"3">>>>])

\* Responses: two that decode (with and without whitespace around the
\* delimiters), one whose narrative ends in '<', one without <<<EOS>>>.
Responses ==
    { SampleResponse,
      FullText,
      <<"d">> \o EOID \o <<"c">> \o EOIC \o <<"t", "<">> \o EOO \o <<"s">> \o EOS
          \o <<"1">> \o EOA \o <<"2">> \o EOA \o <<"3">>,
      <<"d">> \o EOID \o <<"c">> \o EOIC \o <<"t">> \o EOO \o <<"s">> }

InitResp ==
    /\ InitTurn
    /\ rs_text \in Responses
    /\ rs_fed = 0

notResp ==
    <<finderVars, codecVars, archiveVars, gameVars, ctxVars, clientVars, sseVars,
      callVars>>

\* stream.try_next().await? yields Some(TextDelta(f)), game.rs:100-149, with
\* f the next n characters of the response.
RespTextDelta(n) ==
    /\ tn_pc = "loop"
    /\ tn_polls < MaxDeltas
    /\ rs_fed + n <= Len(rs_text)
    /\ LET f == SubSeq(rs_text, rs_fed + 1, rs_fed + n)
           st == on_text_delta(Stream, f)
       IN  /\ StreamBecomes(st)
           /\ tn_retained' = IF ~Stream.post_eoi_text.some /\ st.post_eoi_text.some
                             THEN st.post_eoi_text ELSE tn_retained
    /\ rs_fed' = rs_fed + n
    /\ tn_polls' = tn_polls + 1
    /\ UNCHANGED <<rs_text, tn_ended, tn_final, tn_decoded>>
    /\ UNCHANGED notResp

\* stream.try_next().await? yields Some(MessageComplete(m)), game.rs:151-155,
\* with m.text the whole response.
RespMessageComplete ==
    /\ tn_pc = "loop"
    /\ rs_fed = Len(rs_text)
    /\ StreamBecomes(on_message_complete(Stream, OutputMessage(rs_text)))
    /\ tn_decoded' = LET output == try_from(OutputMessage(rs_text)) IN
                      IF output.ok THEN "ok" ELSE output.error
    /\ UNCHANGED <<respVars, tn_polls, tn_ended, tn_retained, tn_final>>
    /\ UNCHANGED notResp

\* The poll after the loop finds the end of the response stream and the
\* output is sent, game.rs:159-164.
RespEnd ==
    /\ tn_pc = "final_poll"
    /\ StreamBecomes(on_final_poll(Stream, StreamEnd))
    /\ tn_final' = StreamEnd.kind
    /\ UNCHANGED <<respVars, tn_polls, tn_ended, tn_retained, tn_decoded>>
    /\ UNCHANGED notResp

NextResp ==
    \/ \E n \in 1..Len(rs_text) : RespTextDelta(n)
    \/ RespMessageComplete
    \/ RespEnd

---------------------------------------------------------------------------
(* GameContext with every value tagged by the call of send_to_llm it comes *)
(* from: generate_new_turn, game_context.rs:330-350, and the messages of   *)
(* its tasks, which the runtime delivers in any order.  Call c has input   *)
(* c; its round_output resolves to output c, its image to image c.  0 is   *)
(* None.                                                                   *)

CallSubState(kind, input, output, image) ==
    [kind |-> kind, input |-> input, output |-> output, image |-> image]

CallMessage(msg, call) == [msg |-> msg, call |-> call]

\* GameContext::try_new on a saved game, game_context.rs:70-78: sub state
\* Complete, no task running.
InitCalls ==
    /\ cc_calls = 0
    /\ cc_sub_state = CallSubState("Complete", 0, 0, 0)
    /\ cc_messages = {}
    /\ cc_turn_data = <<>>

notCalls ==
    <<finderVars, codecVars, archiveVars, gameVars, ctxVars, turnVars, clientVars,
      sseVars, respVars>>

\* MyMessage::Submit, state/playing.rs:100-107, which calls
\* generate_new_turn, game_context.rs:330-350: neither looks at sub_state.
\* Submit comes from "Go" or, as a queued Task::done(Submit), from a
\* proposed action button (playing.rs:92-94).
CallGenerateNewTurn ==
    /\ cc_calls < MaxCalls
    /\ cc_calls' = cc_calls + 1
    /\ cc_sub_state' = CallSubState("WaitingForOutput", cc_calls + 1, 0, 0)
    /\ cc_messages' = cc_messages \cup
                        { CallMessage("OutputComplete", cc_calls + 1),
                          CallMessage("ImageReady", cc_calls + 1) }
    /\ UNCHANGED cc_turn_data
    /\ UNCHANGED notCalls

\* ContextMessage::OutputComplete of call c, game_context.rs:132-154;
\* sub_state.take() leaves Uninit when the variant is another.
CallOutputComplete(c, ok) ==
    /\ CallMessage("OutputComplete", c) \in cc_messages
    /\ LET rest == cc_messages \ {CallMessage("OutputComplete", c)} IN
       IF ~ok
       THEN /\ cc_sub_state' = cc_sub_state
            /\ cc_messages' = rest
       ELSE IF cc_sub_state.kind # "WaitingForOutput"
       THEN /\ cc_sub_state' = CallSubState("Uninit", 0, 0, 0)
            /\ cc_messages' = rest
       ELSE IF cc_sub_state.image # 0
       THEN /\ cc_sub_state' = CallSubState("WaitingForSummary",
                                    cc_sub_state.input, c, cc_sub_state.image)
            /\ cc_messages' =
                  rest \cup {CallMessage("SummaryFinished", cc_sub_state.input)}
       ELSE /\ cc_sub_state' = [cc_sub_state EXCEPT !.output = c]
            /\ cc_messages' = rest
    /\ UNCHANGED <<cc_calls, cc_turn_data>>
    /\ UNCHANGED notCalls

\* ContextMessage::ImageReady of call c, game_context.rs:188-214
CallImageReady(c, ok) ==
    /\ CallMessage("ImageReady", c) \in cc_messages
    /\ LET rest == cc_messages \ {CallMessage("ImageReady", c)} IN
       IF ~ok
       THEN /\ cc_sub_state' = cc_sub_state
            /\ cc_messages' = rest
       ELSE IF cc_sub_state.kind # "WaitingForOutput"
       THEN /\ cc_sub_state' = CallSubState("Uninit", 0, 0, 0)
            /\ cc_messages' = rest
       ELSE IF cc_sub_state.output # 0
       THEN /\ cc_sub_state' = CallSubState("WaitingForSummary",
                                    cc_sub_state.input, cc_sub_state.output, c)
            /\ cc_messages' =
                  rest \cup {CallMessage("SummaryFinished", cc_sub_state.input)}
       ELSE /\ cc_sub_state' = [cc_sub_state EXCEPT !.image = c]
            /\ cc_messages' = rest
    /\ UNCHANGED <<cc_calls, cc_turn_data>>
    /\ UNCHANGED notCalls

\* ContextMessage::SummaryFinished(Ok(_)) of the summary requested for
\* input c, game_context.rs:156-178: Game::update pushes the TurnData of
\* the fields of WaitingForSummary.
CallSummaryFinished(c) ==
    /\ CallMessage("SummaryFinished", c) \in cc_messages
    /\ cc_messages' = cc_messages \ {CallMessage("SummaryFinished", c)}
    /\ IF cc_sub_state.kind = "WaitingForSummary"
       THEN /\ cc_turn_data' = Append(cc_turn_data,
                                  [input |-> cc_sub_state.input,
                                   output |-> cc_sub_state.output,
                                   image |-> cc_sub_state.image])
            /\ cc_sub_state' = CallSubState("Complete", 0, 0, 0)
       ELSE /\ cc_turn_data' = cc_turn_data
            /\ cc_sub_state' = CallSubState("Uninit", 0, 0, 0)
    /\ UNCHANGED cc_calls
    /\ UNCHANGED notCalls

NextCalls ==
    \/ CallGenerateNewTurn
    \/ \E c \in 1..MaxCalls, ok \in BOOLEAN : CallOutputComplete(c, ok)
    \/ \E c \in 1..MaxCalls, ok \in BOOLEAN : CallImageReady(c, ok)
    \/ \E c \in 1..MaxCalls : CallSummaryFinished(c)

---------------------------------------------------------------------------
(* A session: GameContext::update driven by the futures of the stream of   *)
(* send_to_llm that the running turn polls.  The turn output reaches the   *)
(* context when tx_output is sent or dropped, the image when the           *)
(* description has been sent (or its sender dropped).                      *)

\* The text deltas of a session: those that hold a whole end token.
SessionDeltas ==
    {f \in Deltas : Occurrences(f, EOIC) # {} \/ Occurrences(f, EOO) # {}}

\* The tasks of the first turn have been spawned (game_context.rs:109-111).
Started == ctx_last # Handled("try_new", TRUE)

\* A plausible slip: a dropped sender taken for an output.
output_result_always_ok(tx_output) == TRUE

\* round_output: async move { Ok(rx_output.await?) }, game.rs:170: Ok when
\* the output was sent, Err when the sender was dropped.
output_result(tx_output) == tx_output = "sent"

\* get_image, game.rs:407-415, can return an image: the description came.
image_possible(img_sent) == img_sent = 1

\* The runtime polls the text stream of the running turn.
SessPoll ==
    /\ Started
    /\ \/ \E f \in SessionDeltas : PollTextDelta(f)
       \/ \E m \in Messages : PollMessageComplete(m)
       \/ PollError
       \/ PollEnd
       \/ \E e \in {StreamEnd, StreamError} : FinalPoll(e)

\* round_output resolves and the runtime delivers OutputComplete
SessOutputComplete ==
    /\ tn_tx_output \in {"sent", "dropped"}
    /\ OutputComplete(output_result(tn_tx_output))

\* the image future resolves and the runtime delivers ImageReady
SessImageReady ==
    \/ /\ image_possible(tn_img_sent)
       /\ \E ok \in BOOLEAN : ImageReady(ok)
    \/ /\ ~image_possible(tn_img_sent)
       /\ tn_pc \in {"done", "error", "panic"}
       /\ ImageReady(FALSE)

\* GameContext::generate_new_turn, game_context.rs:330-350, with the stream
\* that its call of send_to_llm creates.
SessGenerateNewTurn ==
    /\ ctx_sub_state.kind = "Complete"
    /\ current_turn(Game) < MaxSessionTurns
    /\ ctx_sub_state' = SubState("WaitingForOutput", FALSE, FALSE)
    /\ ctx_tasks' = TurnTasks
    /\ ctx_last' = Handled("generate_new_turn", TRUE)
    /\ ctx_request' = construct_request(Game, RunningTurn)
    /\ ctx_sub_data' = NoSubData
    /\ UNCHANGED ctx_summary_request
    /\ StreamBecomes(new_stream)
    /\ tn_polls' = 0
    /\ tn_ended' = FALSE
    /\ tn_retained' = NoText
    /\ tn_final' = "none"
    /\ tn_decoded' = "none"
    /\ UNCHANGED <<gameVars, archiveVars, finderVars, codecVars, llmVars>>

NextSession ==
    \/ CtxInit
    \/ SessPoll
    \/ SessOutputComplete
    \/ SessImageReady
    \/ SummaryFinished
    \/ SessGenerateNewTurn

---------------------------------------------------------------------------
(* A game of any size around the region size saved into a new archive, as  *)
(* GameContext saves self.game.data (game_context.rs:172, 308).            *)

\* Games of up to the number of turns whose cells fill the region, with up
\* to 3 summaries.
RegionGames ==
    {[world_description |-> World(1),
      turn_data |-> make_sample_game_data(n, 1).turn_data,
      summaries |-> [i \in 1..k |-> [content |-> 1, bday |-> i]]] :
        n \in 0..(DEFAULT_GAME_DATA_SIZE \div TURN_CELLS), k \in 0..3}

InitRegion ==
    /\ InitArchive
    /\ \E g \in RegionGames :
          /\ gm_turn_data = g.turn_data
          /\ gm_summaries = g.summaries
          /\ gm_world = g.world_description
    /\ gm_passed = <<>>

\* self.save.write_game_data(&self.game.data)
SaveGameData ==
    LET r == write_game_data(Archive, Game) IN
    /\ ar_last \notin {"write_ok", "write_err"}
    /\ ar_file' = r.file
    /\ ar_header' = r.header
    /\ ar_index' = r.image_index
    /\ ar_saved' = IF r.ok THEN [some |-> TRUE, data |-> Game, shrunk |-> FALSE]
                   ELSE ar_saved
    /\ ar_last' = IF r.ok THEN "write_ok" ELSE "write_err"
    /\ UNCHANGED <<ar_appended, ar_reopen_at, gameVars, ctxVars>>
    /\ UNCHANGED notContext

NextRegion == SaveGameData

---------------------------------------------------------------------------
(* sse_parser::Parser, sse_parser.rs:113-174, fed a byte stream in chunks. *)
(* Bytes are one-character strings.                                        *)

EVENT_PREFIX == <<"e", "v", "e", "n", "t", ":", " ">>
DATA_PREFIX == <<"d", "a", "t", "a", ":", " ">>
NLNL == NL \o NL

\* str::lines: the pieces between line feeds, a final empty piece dropped,
\* a carriage return before the line feed stripped.
lines(text) ==
    LET pieces == split(text, NL)
        kept == IF pieces[Len(pieces)] = <<>>
                THEN SubSeq(pieces, 1, Len(pieces) - 1) ELSE pieces
    IN  [i \in 1..Len(kept) |->
            IF kept[i] # <<>> /\ kept[i][Len(kept[i])] = "\r"
            THEN SubSeq(kept[i], 1, Len(kept[i]) - 1) ELSE kept[i]]

\* Option<String>
NoString == [some |-> FALSE, value |-> <<>>]
SomeString(str) == [some |-> TRUE, value |-> str]

\* RawEvent { event_type, data }, sse_parser.rs:11-17
RawEvent(event_type, data) == [event_type |-> event_type, data |-> data]

\* The for loop of parse_sse_event over the lines, sse_parser.rs:159-170.
RECURSIVE parse_lines(_, _, _)
parse_lines(ls, event_type, data) ==
    IF ls = <<>> THEN [ok |-> TRUE, raw |-> RawEvent(event_type, data)]
    ELSE LET line == Head(ls) IN
         IF IsPrefix(EVENT_PREFIX, line)
         THEN parse_lines(Tail(ls),
                          SomeString(SubSeq(line, Len(EVENT_PREFIX) + 1, Len(line))),
                          data)
         ELSE IF IsPrefix(DATA_PREFIX, line)
         THEN parse_lines(Tail(ls), event_type,
                          (IF data # <<>> THEN data \o NL ELSE data)
                              \o SubSeq(line, Len(DATA_PREFIX) + 1, Len(line)))
         ELSE [ok |-> FALSE, raw |-> RawEvent(NoString, <<>>)]

\* Parser::parse_sse_event, sse_parser.rs:154-173 (the bytes of the model
\* are all UTF-8)
parse_sse_event(buf) == parse_lines(lines(buf), NoString, <<>>)

\* The event types that carry no JSON, and those whose data must parse.
PING == <<"p", "i", "n", "g">>
MESSAGE_STOP ==
    <<"m", "e", "s", "s", "a", "g", "e", "_", "s", "t", "o", "p">>

\* serde_json::from_str(&raw.data).ok() of the typed events: the data of
\* the model parses when it is an object.
json_object(data) ==
    Len(data) >= 2 /\ data[1] = "{" /\ data[Len(data)] = "}"

\* Event::from_raw_event, sse_parser.rs:177-206: the typed event, or
\* Unknown(raw) when the type is missing or not known.  An event type of
\* one letter stands for the types that carry JSON.
from_raw_event(raw) ==
    IF ~raw.event_type.some THEN [kind |-> "Unknown", raw |-> raw]
    ELSE IF raw.event_type.value \in {PING, MESSAGE_STOP}
    THEN [kind |-> "Plain", raw |-> raw]
    ELSE IF raw.event_type.value \in {<<"d">>, <<"s">>} /\ json_object(raw.data)
    THEN [kind |-> "Json", raw |-> raw]
    ELSE [kind |-> "Unknown", raw |-> raw]

Parser(bytes, index) == [bytes |-> bytes, index |-> index]

\* Parser::default()
new_parser == Parser(<<>>, 0)

\* unprocessed.windows(2).position(|w| w == b"\n\n"), -1 for None
blank_line_position(unprocessed) ==
    IF Occurrences(unprocessed, NLNL) = {} THEN None
    ELSE (CHOOSE i \in Occurrences(unprocessed, NLNL) :
              \A j \in Occurrences(unprocessed, NLNL) : i <= j) - 1

\* A plausible slip: the buffer replaced by the new chunk.
replace_by_slice(bytes, chunk) == chunk

\* self.bytes.extend_from_slice(&chunk), sse_parser.rs:121
extend_from_slice(bytes, chunk) == bytes \o chunk

\* The loop of Parser::process, sse_parser.rs:124-135
RECURSIVE process_events(_, _)
process_events(parser, events) ==
    LET unprocessed == SubSeq(parser.bytes, parser.index + 1, Len(parser.bytes))
        pos == blank_line_position(unprocessed)
    IN  IF pos = None THEN [ok |-> TRUE, parser |-> parser, events |-> events]
        ELSE LET event == parse_sse_event(SubSeq(unprocessed, 1, pos)) IN
             IF ~event.ok
             THEN [ok |-> FALSE, parser |-> parser, events |-> <<>>]
             ELSE process_events(Parser(parser.bytes, parser.index + pos + 2),
                                 Append(events, from_raw_event(event.raw)))

\* Parser::process, sse_parser.rs:120-138 (named process in the code, as
\* StreamFinder::process is)
parser_process(parser, chunk) ==
    process_events(Parser(extend_from_slice(parser.bytes, chunk), parser.index),
                   <<>>)

\* Parser::parse_remaining, sse_parser.rs:141-150: events is empty for None
parse_remaining(parser) ==
    IF parser.index < Len(parser.bytes)
    THEN LET event == parse_sse_event(
                          SubSeq(parser.bytes, parser.index + 1, Len(parser.bytes)))
         IN  IF ~event.ok THEN [parser |-> parser, events |-> <<>>]
             ELSE [parser |-> Parser(parser.bytes, Len(parser.bytes)),
                   events |-> <<from_raw_event(event.raw)>>]
    ELSE [parser |-> parser, events |-> <<>>]

\* One event of a stream: an `event: ` line and `data: ` lines.
SseEvent(event_type, data_lines) ==
    EVENT_PREFIX \o event_type
        \o Flatten([i \in 1..Len(data_lines) |-> NL \o DATA_PREFIX \o data_lines[i]])

\* The byte streams: events ended by a single line feed as in the test, by
\* a blank line, and by nothing; data of two lines; an event without a
\* type; an empty event; and a stream with a line that is no field.
SseStreams ==
    { SseEvent(PING, <<<<"{", "}">>>>) \o NLNL
          \o SseEvent(<<"d">>, <<<<"{", "a", "}">>>>) \o NLNL
          \o SseEvent(MESSAGE_STOP, <<<<"{", "}">>>>) \o NL,
      SseEvent(<<"d">>, <<<<"{", "a", "}">>>>) \o NLNL
          \o SseEvent(<<"d">>, <<<<"{", "b", "}">>>>) \o NLNL,
      SseEvent(<<"s">>, <<<<"{">>, <<"}">>>>) \o NLNL
          \o DATA_PREFIX \o <<"x">>,
      SseEvent(PING, <<<<"{", "}">>>>) \o NLNL \o NLNL
          \o SseEvent(<<"u">>, <<<<"x">>>>) \o NLNL,
      SseEvent(PING, <<<<"{", "}">>>>) \o NLNL
          \o <<"o", "o", "p", "s">> \o NLNL
          \o SseEvent(PING, <<<<"{", "}">>>>) \o NLNL }

IdleSse ==
    /\ sse_stream = <<>>
    /\ sse_fed = 0
    /\ sse_parser = new_parser
    /\ sse_events = <<>>
    /\ sse_pc = "idle"

InitSse ==
    /\ sse_stream \in SseStreams
    /\ sse_fed = 0
    /\ sse_parser = new_parser
    /\ sse_events = <<>>
    /\ sse_pc = "feeding"

\* for ev in parser.process(chunk?)?, claude_api.rs:131-132, with the next
\* n bytes of the stream as the chunk
SseProcess(n) ==
    /\ sse_pc = "feeding"
    /\ sse_fed + n <= Len(sse_stream)
    /\ LET r == parser_process(sse_parser,
                               SubSeq(sse_stream, sse_fed + 1, sse_fed + n))
       IN  /\ sse_parser' = r.parser
           /\ sse_events' = sse_events \o r.events
           /\ sse_pc' = IF r.ok THEN "feeding" ELSE "error"
    /\ sse_fed' = sse_fed + n
    /\ UNCHANGED sse_stream
    /\ UNCHANGED notSse

\* parser.parse_remaining() after the last chunk, claude_api.rs:139
SseParseRemaining ==
    /\ sse_pc = "feeding"
    /\ sse_fed = Len(sse_stream)
    /\ LET r == parse_remaining(sse_parser) IN
         /\ sse_parser' = r.parser
         /\ sse_events' = sse_events \o r.events
    /\ sse_pc' = "done"
    /\ UNCHANGED <<sse_stream, sse_fed>>
    /\ UNCHANGED notSse

NextSse ==
    \/ \E n \in 1..MaxChunk : SseProcess(n)
    \/ SseParseRemaining

---------------------------------------------------------------------------
(* The response streams of the LLM clients: claude_api::send_request_stream *)
(* (claude_api.rs:38-148) and OpenAIChat::send_request_stream              *)
(* (open_ai_chat.rs:30-124).  The server is the environment: it answers    *)
(* with any status and sends any sequence of events or lines.  A           *)
(* TextDelta carries one unit of text; text and full_text count them.      *)

\* An sse_parser::Event as process_event sees it: valid tells whether the
\* fields it checks are as it wants them (role, block type, delta type,
\* token counts), text whether the block's text is non-empty.
ClaudeEvent(type, valid, text) == [type |-> type, valid |-> valid, text |-> text]

ClaudeEvents ==
    {ClaudeEvent(t, v, 1) :
        t \in {"message_start", "content_block_delta", "message_delta"},
        v \in BOOLEAN}
    \cup {ClaudeEvent("content_block_start", v, x) : v \in BOOLEAN, x \in 0..1}
    \cup {ClaudeEvent(t, TRUE, 0) :
            t \in {"content_block_stop", "ping", "message_stop", "error",
                   "unknown"}}

NoEvent == ClaudeEvent("none", TRUE, 0)

\* The items of a stream.
ItemTextDelta == [kind |-> "TextDelta", text |-> 1]
ItemMessageComplete(text) == [kind |-> "MessageComplete", text |-> text]
ItemErr == [kind |-> "Err", text |-> 0]

\* process_event, claude_api.rs:71-129: what it returns (an item to yield,
\* nothing, or an error) and the captured state it leaves.
process_event(ev, first_msg_complete, text) ==
    LET same(res, item) ==
            [res |-> res, item |-> item,
             first_msg_complete |-> first_msg_complete, text |-> text]
    IN  CASE ev.type = "message_start" ->
                IF first_msg_complete \/ ~ev.valid THEN same("err", ItemErr)
                ELSE same("none", ItemErr)
          [] ev.type = "content_block_start" ->
                IF ~ev.valid THEN same("err", ItemErr)
                ELSE IF ev.text > 0
                THEN [res |-> "item", item |-> ItemTextDelta,
                      first_msg_complete |-> first_msg_complete,
                      text |-> text + ev.text]
                ELSE same("none", ItemErr)
          [] ev.type = "content_block_delta" ->
                IF ~ev.valid THEN same("err", ItemErr)
                ELSE [res |-> "item", item |-> ItemTextDelta,
                      first_msg_complete |-> first_msg_complete,
                      text |-> text + ev.text]
          [] ev.type = "message_delta" ->
                IF ~ev.valid THEN same("err", ItemErr) ELSE same("none", ItemErr)
          [] ev.type = "message_stop" ->
                [res |-> "item", item |-> ItemMessageComplete(text),
                 first_msg_complete |-> TRUE, text |-> text]
          [] ev.type = "error" -> same("err", ItemErr)
          [] OTHER -> same("none", ItemErr)

\* What one line of a chunk is to OpenAIChat, open_ai_chat.rs:92-117.
OpenAILines == {"content", "no_content", "done", "not_data", "bad_json"}

IdleClient ==
    /\ cl_client = "none"
    /\ cl_pc = "idle"
    /\ cl_items = <<>>
    /\ cl_first_msg_complete = FALSE
    /\ cl_text = 0
    /\ cl_received = 0

\* send_request_stream has been called and the stream is polled
InitClient ==
    /\ cl_client \in {"Claude", "OpenAIChat"}
    /\ cl_pc = "request"
    /\ cl_items = <<>>
    /\ cl_first_msg_complete = FALSE
    /\ cl_text = 0
    /\ cl_received = 0

\* The stream yields: Err(e)? inside try_stream! yields the error and ends
\* the stream; an item keeps it open unless the generator returns.
Yields(res, item, pc) ==
    /\ cl_items' = IF res = "item" THEN Append(cl_items, item)
                   ELSE IF res = "err" THEN Append(cl_items, ItemErr)
                   ELSE cl_items
    /\ cl_pc' = IF res = "err" THEN "failed" ELSE pc

\* request.send().await? and the status check, claude_api.rs:53-62 and
\* open_ai_chat.rs:64-76
ClResponse(ok) ==
    /\ cl_pc = "request"
    /\ Yields(IF ok THEN "none" ELSE "err", ItemErr, "streaming")
    /\ UNCHANGED <<cl_client, cl_first_msg_complete, cl_text, cl_received>>
    /\ UNCHANGED notClient

\* for ev in parser.process(chunk?)? { process_event(ev)? }, one event,
\* claude_api.rs:131-137
ClaudeReceives(ev) ==
    /\ cl_client = "Claude"
    /\ cl_pc = "streaming"
    /\ cl_received < MaxReceived
    /\ LET r == process_event(ev, cl_first_msg_complete, cl_text) IN
         /\ Yields(r.res, r.item, "streaming")
         /\ cl_first_msg_complete' = r.first_msg_complete
         /\ cl_text' = r.text
    /\ cl_received' = cl_received + 1
    /\ UNCHANGED cl_client
    /\ UNCHANGED notClient

\* chunk? or parser.process(..)? fails, claude_api.rs:132
ClaudeChunkError ==
    /\ cl_client = "Claude"
    /\ cl_pc = "streaming"
    /\ Yields("err", ItemErr, "failed")
    /\ UNCHANGED <<cl_client, cl_first_msg_complete, cl_text, cl_received>>
    /\ UNCHANGED notClient

\* The body ends: parser.parse_remaining() gives a last event or none,
\* claude_api.rs:139-144, and the generator returns.
ClaudeBodyEnds(ev) ==
    /\ cl_client = "Claude"
    /\ cl_pc = "streaming"
    /\ LET r == process_event(ev, cl_first_msg_complete, cl_text) IN
         /\ Yields(r.res, r.item, "ended")
         /\ cl_first_msg_complete' = r.first_msg_complete
         /\ cl_text' = r.text
    /\ UNCHANGED <<cl_client, cl_received>>
    /\ UNCHANGED notClient

\* One line of a chunk, open_ai_chat.rs:92-117
OpenAIReceives(line) ==
    /\ cl_client = "OpenAIChat"
    /\ cl_pc = "streaming"
    /\ cl_received < MaxReceived
    /\ CASE line = "done" ->
              /\ Yields("item", ItemMessageComplete(cl_text), "ended")
              /\ cl_text' = cl_text
         [] line = "content" ->
              /\ Yields("item", ItemTextDelta, "streaming")
              /\ cl_text' = cl_text + 1
         [] line = "bad_json" ->
              /\ Yields("err", ItemErr, "failed")
              /\ cl_text' = cl_text
         [] OTHER ->
              /\ Yields("none", ItemErr, "streaming")
              /\ cl_text' = cl_text
    /\ cl_received' = cl_received + 1
    /\ UNCHANGED <<cl_client, cl_first_msg_complete>>
    /\ UNCHANGED notClient

\* stream.next() gives Err: logged, then break, open_ai_chat.rs:85-88
OpenAIChunkError ==
    /\ cl_client = "OpenAIChat"
    /\ cl_pc = "streaming"
    /\ Yields("none", ItemErr, "ended")
    /\ UNCHANGED <<cl_client, cl_first_msg_complete, cl_text, cl_received>>
    /\ UNCHANGED notClient

\* A chunk that is not UTF-8, open_ai_chat.rs:90
OpenAIChunkNotUtf8 ==
    /\ cl_client = "OpenAIChat"
    /\ cl_pc = "streaming"
    /\ Yields("err", ItemErr, "failed")
    /\ UNCHANGED <<cl_client, cl_first_msg_complete, cl_text, cl_received>>
    /\ UNCHANGED notClient

\* stream.next() gives None: the while loop ends, open_ai_chat.rs:84
OpenAIBodyEnds ==
    /\ cl_client = "OpenAIChat"
    /\ cl_pc = "streaming"
    /\ Yields("none", ItemErr, "ended")
    /\ UNCHANGED <<cl_client, cl_first_msg_complete, cl_text, cl_received>>
    /\ UNCHANGED notClient

NextClient ==
    \/ \E ok \in BOOLEAN : ClResponse(ok)
    \/ \E ev \in ClaudeEvents : ClaudeReceives(ev)
    \/ ClaudeChunkError
    \/ \E ev \in ClaudeEvents \cup {NoEvent} : ClaudeBodyEnds(ev)
    \/ \E line \in OpenAILines : OpenAIReceives(line)
    \/ OpenAIChunkError
    \/ OpenAIChunkNotUtf8
    \/ OpenAIBodyEnds

---------------------------------------------------------------------------
(* Specifications: one per component, the other components idle. *)

\* No response is being delivered in fragments.
IdleResp ==
    /\ rs_text = <<>>
    /\ rs_fed = 0

\* No call of send_to_llm is followed.
IdleCalls ==
    /\ cc_calls = 0
    /\ cc_sub_state = CallSubState("Uninit", 0, 0, 0)
    /\ cc_messages = {}
    /\ cc_turn_data = <<>>

IdleLlm ==
    /\ IdleClient
    /\ IdleSse
    /\ IdleResp
    /\ IdleCalls

\* No archive is open.
IdleArchive ==
    /\ ar_file = <<>>
    /\ ar_header = create(0).header
    /\ ar_index = <<>>
    /\ ar_appended = <<>>
    /\ ar_saved = NothingSaved
    /\ ar_last = "idle"
    /\ ar_reopen_at = -1

InitSpecFinder ==
    /\ InitFinder
    /\ IdleCodec
    /\ IdleArchive
    /\ IdleGame
    /\ IdleContext
    /\ IdleTurn
    /\ IdleLlm

SpecFinder == InitSpecFinder /\ [][NextFinder]_vars

InitSpecCodec ==
    /\ InitCodec
    /\ IdleFinder
    /\ IdleArchive
    /\ IdleGame
    /\ IdleContext
    /\ IdleTurn
    /\ IdleLlm

SpecCodec == InitSpecCodec /\ [][NextCodec]_vars

InitSpecArchive ==
    /\ InitArchive
    /\ IdleFinder
    /\ IdleCodec
    /\ IdleGame
    /\ IdleContext
    /\ IdleTurn
    /\ IdleLlm

SpecArchive == InitSpecArchive /\ [][NextArchive]_vars

SpecInterrupted == InitSpecArchive /\ [][NextInterrupted]_vars

InitSpecGame ==
    /\ InitGame
    /\ IdleFinder
    /\ IdleCodec
    /\ IdleArchive
    /\ IdleContext
    /\ IdleTurn
    /\ IdleLlm

SpecGame == InitSpecGame /\ [][NextGame]_vars

InitSpecCommit ==
    /\ InitContext
    /\ IdleFinder
    /\ IdleCodec
    /\ IdleTurn
    /\ IdleLlm

SpecCommit == InitSpecCommit /\ [][NextContext]_vars

InitSpecTurn ==
    /\ InitTurn
    /\ IdleFinder
    /\ IdleCodec
    /\ IdleArchive
    /\ IdleGame
    /\ IdleContext
    /\ IdleLlm

SpecTurn == InitSpecTurn /\ [][NextTurn]_vars

\* The same with the generator scheduled: the task that runs text_stream is
\* polled by the runtime as long as it has a step to take.
SpecTurnFair == SpecTurn /\ WF_vars(NextTurn)

InitSpecSession ==
    /\ InitContext
    /\ InitTurn
    /\ IdleFinder
    /\ IdleCodec
    /\ IdleLlm

SpecSession == InitSpecSession /\ [][NextSession]_vars

InitSpecRegion ==
    /\ InitRegion
    /\ IdleFinder
    /\ IdleCodec
    /\ IdleContext
    /\ IdleTurn
    /\ IdleLlm

SpecRegion == InitSpecRegion /\ [][NextRegion]_vars

InitSpecRewind ==
    /\ InitContext
    /\ IdleFinder
    /\ IdleCodec
    /\ IdleTurn
    /\ IdleLlm

SpecRewind == InitSpecRewind /\ [][NextRewind]_vars

InitSpecNavigate ==
    /\ InitContext
    /\ IdleFinder
    /\ IdleCodec
    /\ IdleTurn
    /\ IdleLlm

SpecNavigate == InitSpecNavigate /\ [][NextNavigate]_vars

InitSpecJoin ==
    /\ InitContext
    /\ IdleFinder
    /\ IdleCodec
    /\ IdleTurn
    /\ IdleLlm

SpecJoin == InitSpecJoin /\ [][NextJoin]_vars

InitSpecResp ==
    /\ InitResp
    /\ IdleClient
    /\ IdleSse
    /\ IdleCalls
    /\ IdleFinder
    /\ IdleCodec
    /\ IdleArchive
    /\ IdleGame
    /\ IdleContext

SpecResp == InitSpecResp /\ [][NextResp]_vars

InitSpecCalls ==
    /\ InitCalls
    /\ IdleClient
    /\ IdleSse
    /\ IdleResp
    /\ IdleFinder
    /\ IdleCodec
    /\ IdleArchive
    /\ IdleGame
    /\ IdleContext
    /\ IdleTurn

SpecCalls == InitSpecCalls /\ [][NextCalls]_vars

InitSpecEdit ==
    /\ InitContext
    /\ IdleFinder
    /\ IdleCodec
    /\ IdleTurn
    /\ IdleLlm

SpecEdit == InitSpecEdit /\ [][NextEdit]_vars

InitSpecClient ==
    /\ InitClient
    /\ IdleSse
    /\ IdleResp
    /\ IdleCalls
    /\ IdleFinder
    /\ IdleCodec
    /\ IdleArchive
    /\ IdleGame
    /\ IdleContext
    /\ IdleTurn

SpecClient == InitSpecClient /\ [][NextClient]_vars

InitSpecSse ==
    /\ InitSse
    /\ IdleClient
    /\ IdleResp
    /\ IdleCalls
    /\ IdleFinder
    /\ IdleCodec
    /\ IdleArchive
    /\ IdleGame
    /\ IdleContext
    /\ IdleTurn

SpecSse == InitSpecSse /\ [][NextSse]_vars

InitSpecDecode ==
    /\ InitDecode
    /\ IdleFinder
    /\ IdleArchive
    /\ IdleGame
    /\ IdleContext
    /\ IdleTurn
    /\ IdleLlm

SpecDecode == InitSpecDecode /\ [][NextDecode]_vars

---------------------------------------------------------------------------
(* Claims. *)

\* Where the single occurrence of the target starts in S.
TokenStart == CHOOSE i \in Occurrences(sf_input, sf_target) : TRUE

(* C1: fed any chunking of a string S holding the target T exactly once,    *)
(* the scanner reports the token, the CheckedOutput texts followed by the   *)
(* final pre_token_text are the part of S before T, and post_token_text is  *)
(* the part after T of what has been fed.                                   *)
C1_ScannerSplitsAtToken ==
    /\ sf_fed = Len(sf_input) => sf_last.kind = "StopTokenMatched"
    /\ sf_last.kind = "StopTokenMatched" =>
          /\ sf_checked \o sf_last.pre_token_text
                = SubSeq(sf_input, 1, TokenStart - 1)
          /\ sf_last.post_token_text
                = SubSeq(sf_input, TokenStart + Len(sf_target), sf_fed)

\* x with every field trimmed: what a decode of x's encoding should return.
Trimmed(x) ==
    [x EXCEPT !.text = trim(@), !.image_description = trim(@),
              !.image_caption = trim(@), !.secret_info = trim(@),
              !.proposed_next_actions = [i \in DOMAIN @ |-> trim(@[i])]]

Delimiters == {EOID, EOIC, EOO, EOS, EOA}

HasDelimiter(s) == \E d \in Delimiters : Occurrences(s, d) # {}

Fields(x) ==
    {x.text, x.image_description, x.image_caption, x.secret_info}
        \cup {x.proposed_next_actions[i] : i \in 1..N_PROPOSED_OPTIONS}

RoundTrips == codec_result.ok /\ codec_result.value = Trimmed(codec_x)

(* C2 as claimed: decoding the encoding of any TurnOutput x with 3 proposed *)
(* actions succeeds and returns x with every field trimmed.                 *)
C2_RoundTripAnyOutput == codec_pc = "decoded" => RoundTrips

(* C2 as amended: decoding the encoding of a TurnOutput x with 3 proposed   *)
(* actions, none of whose fields contains one of the five delimiters,       *)
(* succeeds and returns x with every field trimmed.                         *)
C2_RoundTripDelimiterFree ==
    (codec_pc = "decoded" /\ \A f \in Fields(codec_x) : ~HasDelimiter(f))
        => RoundTrips

\* A delimiter-free x with untrimmed fields has been encoded and decoded.
C2_Witness ==
    /\ codec_pc = "decoded"
    /\ \A f \in Fields(codec_x) : ~HasDelimiter(f)
    /\ \E f \in Fields(codec_x) : trim(f) # f
    /\ codec_result.ok
    /\ codec_result.value.text # codec_result.value.image_caption

\* read_image on the open handle returns the i-th appended image, 0-based.
ReadsBack(i) ==
    read_image(Archive, i) = [ok |-> TRUE, bytes |-> ar_appended[i + 1]]

(* C3: after any sequence of append_image calls, with the handle closed and *)
(* the file reopened at any point, open succeeds and read_image(i) returns  *)
(* exactly the bytes passed to the i-th append_image call, counted from 0.  *)
C3_ReadImageReturnsAppended ==
    /\ ar_last # "open_err"
    /\ Len(ar_index) = Len(ar_appended)
    /\ \A i \in 0..(Len(ar_appended) - 1) : ReadsBack(i)

\* Two different images are read back from a handle that was reopened
\* between the two appends and again after them.
C3_Witness ==
    /\ Len(ar_appended) = 2
    /\ ar_appended[1] # ar_appended[2]
    /\ ar_appended[2] # <<>>
    /\ ar_last = "reopen"
    /\ ar_saved.some
    /\ ReadsBack(0) /\ ReadsBack(1)

(* C4: once a write_game_data has succeeded, read_game_data returns the     *)
(* document of the latest successful write, on the same handle and after a  *)
(* reopen, also when that document is shorter than the one it overwrote.    *)
C4_ReadGameDataReturnsWritten ==
    ar_saved.some =>
        read_game_data(Archive) = [ok |-> TRUE, value |-> ar_saved.data]

\* A shorter document has overwritten a longer one, a later write was
\* rejected, and the file has been reopened.
C4_Witness ==
    /\ ar_saved.some /\ ar_saved.shrunk
    /\ Len(ar_saved.data.turn_data) > 0
    /\ ar_last = "reopen"
    /\ Len(ar_appended) > 0
    /\ read_game_data(Archive).ok

\* The arguments of a call of Game::update as they are found in a turn.
PassedIn(turn) ==
    [input |-> turn.input, output |-> turn.output,
     image_ids |-> turn.image_ids, image_captions |-> turn.image_captions]

\* C5: turn history is append-only.  After N calls of Game::update on a
\* fresh session turn_data has length N and entry k holds the data passed to
\* the (k+1)-th call, and no call changes an entry that was there before it.
C5_TurnHistoryAppendOnly ==
    /\ [](/\ Len(gm_turn_data) = Len(gm_passed)
          /\ \A k \in 1..Len(gm_passed) :
                k <= Len(gm_turn_data) => PassedIn(gm_turn_data[k]) = gm_passed[k])
    /\ [][/\ Len(gm_turn_data') >= Len(gm_turn_data)
          /\ \A k \in 1..Len(gm_turn_data) : gm_turn_data'[k] = gm_turn_data[k]]_vars

\* Several updates have been made, with different data and with a summary.
C5_Witness ==
    /\ Len(gm_passed) = MaxUpdates
    /\ gm_passed[1] # gm_passed[2]
    /\ gm_summaries # <<>>

\* C6: a commit adds a Summary exactly when, with t the index of the turn
\* being committed, t - last_summary.bday >= 8, or t >= 8 when there is no
\* summary yet; no other commit adds one.  Violated: the decision is taken
\* by mk_summary_if_neccessary before the turn is pushed, from
\* turn_data.len() - 1, which is t - 1.
C6_SummaryAddedEveryEighthTurn ==
    [][Len(gm_turn_data') = Len(gm_turn_data) + 1 =>
        LET t == Len(gm_turn_data)
            claimed == IF gm_summaries = <<>> THEN t >= SUMMARY_INTERVAL
                       ELSE t - gm_summaries[Len(gm_summaries)].bday
                                >= SUMMARY_INTERVAL
        IN  (Len(gm_summaries') = Len(gm_summaries) + 1) <=> claimed]_vars

\* C7: in one run of send_to_llm the image description is sent at most
\* once, and the expect on the taken sender never fires, whatever text
\* deltas arrive.
C7_ImageDescriptionSentAtMostOnce ==
    /\ tn_img_sent <= 1
    /\ tn_pc # "panic"
    /\ tn_img_sent = 1 <=> tn_tx_img_description = "None"

\* The description has been sent and a second <<<EOIC>>> has arrived since.
C7_Witness ==
    /\ tn_img_sent = 1
    /\ tn_mode = "StreamingOutputText"
    /\ \E i \in 1..Len(tn_live) : Occurrences(tn_live[i], EOIC) # {}

\* C8: the image description is never sent after the turn output: once
\* tx_output has been sent, no step sends on tx_img_description.
C8_ImageDescriptionNotAfterOutput ==
    [][tn_tx_output = "sent" \/ tn_tx_output' = "sent" =>
            tn_img_sent' = tn_img_sent]_vars

\* Both have been sent in one run.
C8_Witness ==
    /\ tn_tx_output = "sent"
    /\ tn_img_sent = 1

\* C9: the post_token_text retained from the <<<EOIC>>> match is prepended
\* to the first chunk yielded on the text stream, and is emitted once.
\* Violated: when the first delta scanned for <<<EOO>>> holds the token, the
\* text before it is yielded without the pending prefix.
C9_PendingPrefixStartsFirstChunk ==
    tn_live # <<>> =>
        /\ tn_retained.some
        /\ IsPrefix(tn_retained.text, tn_live[1])
        /\ ~tn_post_eoi_text.some

\* C10: the poll after MessageComplete must be the end of the stream:
\* when it yields a fragment or an error the run ends in an error and the
\* turn output is not sent.  Violated: a fragment is dropped unseen and the
\* output is sent.
C10_FinalPollMustBeEnd ==
    tn_final \in {"TextDelta", "MessageComplete", "Error"} =>
        /\ tn_pc = "error"
        /\ tn_tx_output # "sent"

\* The full response of the running turn did not decode.
DecodeFailed == tn_decoded \notin {"none", "ok"}

\* C11: when decoding the full response fails the turn is aborted and
\* nothing is committed: the turn-output future resolves to an error, and
\* from the failure on no TurnData and no Summary is appended, no image is
\* appended and the archive file is as it was.
C11_DecodeFailureCommitsNothing ==
    /\ [](DecodeFailed =>
            /\ tn_tx_output = "dropped"
            /\ ctx_sub_state.kind = "WaitingForOutput"
            /\ ~ctx_sub_state.output
            /\ ctx_last.msg = "OutputComplete" => ~ctx_last.ok)
    /\ [][DecodeFailed' =>
            UNCHANGED <<gm_turn_data, gm_summaries, ar_file, ar_header,
                        ar_index, ar_appended>>]_vars

\* The second turn failed to decode after the first was committed and
\* saved, and the context has been told.
C11_Witness ==
    /\ DecodeFailed
    /\ Len(gm_turn_data) = 1
    /\ ar_saved.some
    /\ ctx_last = Handled("OutputComplete", FALSE)

\* The four delimiters that decode splits on, in the order of the splits,
\* and the name each has in the error.
SplitOrder == <<EOID, EOIC, EOO, EOS>>
SplitNames == <<"EOID", "EOIC", "EOO", "EOS">>

\* The text the k-th split is made on when the splits before it each found
\* their delimiter exactly once: what follows that one occurrence.
RECURSIVE Remainder(_, _)
Remainder(text, k) ==
    IF k = 1 THEN text
    ELSE LET r == Remainder(text, k - 1)
             at == CHOOSE i \in Occurrences(r, SplitOrder[k - 1]) : TRUE
         IN  SubSeq(r, at + Len(SplitOrder[k - 1]), Len(r))

\* The k-th split fails, all splits before it having succeeded.
FirstFailure(text, k) ==
    /\ \A j \in 1..(k - 1) :
          Cardinality(Occurrences(Remainder(text, j), SplitOrder[j])) = 1
    /\ Cardinality(Occurrences(Remainder(text, k), SplitOrder[k])) # 1

\* C12: decode splits on <<<EOID>>>, <<<EOIC>>>, <<<EOO>>>, <<<EOS>>> in
\* that order, each on the remainder of the split before; it fails whenever
\* a delimiter is absent from or repeated in the text being split, with the
\* error of the first such delimiter, and with no such error otherwise.
C12_DecodeFailsAtFirstBadSplit ==
    codec_pc = "message_decoded" =>
        /\ \A k \in 1..4 :
              FirstFailure(codec_text, k) =>
                  ~codec_result.ok /\ codec_result.error = SplitNames[k]
        /\ (\A k \in 1..4 : ~FirstFailure(codec_text, k)) =>
              (codec_result.ok \/ codec_result.error = "actions")

\* A text with <<<EOID>>> in place and a later delimiter both absent and
\* another repeated has been decoded.
C12_Witness ==
    /\ codec_pc = "message_decoded"
    /\ FirstFailure(codec_text, 2)
    /\ Cardinality(Occurrences(codec_text, EOO)) > 1
    /\ ~codec_result.ok

\* The segment after <<<EOS>>> of a text whose four splits succeed.
ActionTail(text) == Remainder(text, 5)

\* The k-th piece of s between the occurrences of <<<EOA>>>.
Piece(s, k) ==
    LET occ == Occurrences(s, EOA)
        starts == {1} \cup {i + Len(EOA) : i \in occ}
        from == CHOOSE a \in starts : Cardinality({b \in starts : b < a}) = k - 1
        ends == {i \in occ : i >= from}
        to == IF ends = {} THEN Len(s) + 1
              ELSE CHOOSE e \in ends : \A e2 \in ends : e <= e2
    IN  SubSeq(s, from, to - 1)

\* t is s without its leading and trailing whitespace.
IsTrimOf(t, s) ==
    /\ t = <<>> \/ (t[1] \notin Whitespace /\ t[Len(t)] \notin Whitespace)
    /\ \E i \in 1..(Len(s) + 1) :
          /\ SubSeq(s, i, i + Len(t) - 1) = t
          /\ \A j \in 1..Len(s) :
                (j < i \/ j >= i + Len(t)) => s[j] \in Whitespace

SplitsSucceed(text) == \A k \in 1..4 : ~FirstFailure(text, k)

\* C13: when the segment after <<<EOS>>> has fewer than 3 parts between
\* <<<EOA>>> separators decode fails; with 3 or more it succeeds with
\* exactly 3 proposed actions: the first 3 parts, each trimmed.
C13_ExactlyThreeActions ==
    (codec_pc = "message_decoded" /\ SplitsSucceed(codec_text)) =>
        LET tail == ActionTail(codec_text)
            nparts == Cardinality(Occurrences(tail, EOA)) + 1
        IN  IF nparts < 3 THEN ~codec_result.ok
            ELSE /\ codec_result.ok
                 /\ Len(codec_result.value.proposed_next_actions) = 3
                 /\ \A k \in 1..3 :
                       IsTrimOf(codec_result.value.proposed_next_actions[k],
                                Piece(tail, k))

\* A text with more than 3 padded action parts has been decoded.
C13_Witness ==
    /\ codec_pc = "message_decoded"
    /\ SplitsSucceed(codec_text)
    /\ Cardinality(Occurrences(ActionTail(codec_text), EOA)) > 2
    /\ codec_result.ok
    /\ codec_result.value.proposed_next_actions[3] # Piece(ActionTail(codec_text), 3)

\* The smaller of two numbers.
Min(a, b) == IF a < b THEN a ELSE b

\* C14: with n committed turns the request of a new turn holds exactly
\* 2 * min(n, 8) + 1 messages: for each of the last min(n, 8) turns, oldest
\* first, a user message with the turn's index and input followed by an
\* assistant message that is the encoding of the turn's output, then one
\* user message with the new input; no older turn appears.
C14_RequestHoldsLastEightTurns ==
    ctx_sub_state.kind = "WaitingForOutput" =>
        LET n == Len(gm_turn_data)
            k == Min(n, 8)
            msgs == ctx_request.messages
        IN  /\ Len(msgs) = 2 * k + 1
            /\ \A j \in 1..k :
                  LET i == n - k + j - 1 IN
                  /\ msgs[2 * j - 1].role = "user"
                  /\ msgs[2 * j - 1].content.turn = i
                  /\ msgs[2 * j - 1].content.input = gm_turn_data[i + 1].input
                  /\ msgs[2 * j] =
                        assistant(to_llm_format(
                            stored_output(gm_turn_data[i + 1].output)))
            /\ msgs[2 * k + 1].role = "user"
            /\ msgs[2 * k + 1].content.turn = None
            /\ msgs[2 * k + 1].content.input = RunningTurn

\* A turn has been requested with more than 8 turns committed.
C14_Witness ==
    /\ ctx_sub_state.kind = "WaitingForOutput"
    /\ Len(gm_turn_data) > HIST_SIZE + 1
    /\ Len(ctx_request.messages) = 2 * HIST_SIZE + 1

\* C15: when a commit adds a Summary, the summarizer was asked over exactly
\* the unsummarized turns (those after the previous summary's bday, or all
\* turns when there is no summary) and the previous summary's text, and the
\* new Summary's bday is the index of the latest committed turn.  Violated:
\* the request always covers the last 8 turns of turn_data, which leaves
\* out turn 0 when the first summary is made.
C15_SummaryCoversUnsummarizedWindow ==
    [][Len(gm_summaries') = Len(gm_summaries) + 1 =>
        LET from == IF gm_summaries = <<>> THEN 0
                    ELSE gm_summaries[Len(gm_summaries)].bday + 1
            previous == IF gm_summaries = <<>> THEN None
                        ELSE gm_summaries[Len(gm_summaries)].content
        IN  /\ ctx_summary_request.turns =
                    SubSeq(gm_turn_data, from + 1, Len(gm_turn_data))
            /\ ctx_summary_request.last_summary = previous
            /\ gm_summaries'[Len(gm_summaries')].bday = Len(gm_turn_data') - 1]_vars

\* C16: after create and any sequence of write_game_data and append_image
\* calls game_data_size <= game_data_region_size; index_offset is
\* game_data_region_offset + game_data_region_size after create and never
\* decreases; and the serialized index is the tail of the file: the file's
\* length is index_offset + index_size.
C16_HeaderInvariant ==
    /\ [](/\ ar_header.game_data_size <= ar_header.game_data_region_size
          /\ ar_last = "create" =>
                ar_header.index_offset =
                    ar_header.game_data_region_offset
                        + ar_header.game_data_region_size
          /\ ar_header.index_offset >=
                ar_header.game_data_region_offset
                    + ar_header.game_data_region_size
          /\ Len(ar_file) = ar_header.index_offset + ar_header.index_size
          /\ read_header(ar_file) = ar_header)
    /\ [][ar_header'.index_offset >= ar_header.index_offset]_vars

\* Two non-empty images have been appended around a write and a reopen.
C16_Witness ==
    /\ Len(ar_appended) = 2
    /\ ar_appended[1] # <<>> /\ ar_appended[2] # <<>>
    /\ ar_saved.some
    /\ ar_reopen_at = 1
    /\ ar_header.index_size > 0

\* C17: the image index is append-only.  append_image adds exactly one
\* entry, at the position that was the length of the index, which is the
\* id of the image; no other operation changes the index, and no
\* operation changes, reorders or removes an entry.
C17_ImageIndexAppendOnly ==
    [][/\ Len(ar_index') >= Len(ar_index)
       /\ \A i \in 1..Len(ar_index) : ar_index'[i] = ar_index[i]
       /\ IF ar_appended' # ar_appended
          THEN LET image == ar_appended'[Len(ar_appended')]
                   after == [ok |-> TRUE, file |-> ar_file',
                             header |-> ar_header', image_index |-> ar_index']
               IN  /\ Len(ar_index') = Len(ar_index) + 1
                   /\ ar_index'[Len(ar_index')][2] = Len(image)
                   /\ append_image(Archive, image).id = Len(ar_index)
                   /\ read_image(after, Len(ar_index)) =
                         [ok |-> TRUE, bytes |-> image]
          ELSE ar_index' = ar_index]_vars

\* An image was appended to an index that already had an entry, and the
\* archive has been written, read and reopened since.
C17_Witness ==
    /\ Len(ar_index) = 2
    /\ ar_index[1] # ar_index[2]
    /\ ar_saved.some
    /\ ar_reopen_at = 2
    /\ ar_last = "read_image_ok"

\* C18: write_game_data fails exactly when the serialized JSON is longer
\* than game_data_region_size, succeeds for every length up to and
\* including it, and never grows the region.  Violated: a document exactly
\* as long as the region is rejected.
C18_WriteFailsOnlyBeyondRegion ==
    ar_last \in {"write_ok", "write_err"} =>
        /\ ar_last = "write_ok" <=>
                Len(to_json(Game)) <= DEFAULT_GAME_DATA_SIZE
        /\ ar_header.game_data_region_size = DEFAULT_GAME_DATA_SIZE

\* C19: archive errors leave the archive unchanged.  read_image(id) fails
\* for every id from the number of appended images on and succeeds below
\* it; after a failed read_image or a write_game_data rejected as too large
\* the file, the header and the index are as before the call, and the saved
\* game data and every image are still read back.
C19_ArchiveErrorsChangeNothing ==
    /\ [](\A id \in 0..(MaxImages + 2) :
            read_image(Archive, id).ok <=> id < Len(ar_appended))
    /\ [][ar_last' \in {"read_image_err", "write_err"} =>
            /\ UNCHANGED <<ar_file, ar_header, ar_index>>
            /\ \A i \in 0..(Len(ar_appended) - 1) :
                  read_image(Archive, i) = [ok |-> TRUE, bytes |-> ar_appended[i + 1]]
            /\ ar_saved.some =>
                  read_game_data(Archive) = [ok |-> TRUE, value |-> ar_saved.data]]_vars

\* A write was rejected on an archive that holds a saved game and images.
C19_Witness ==
    /\ ar_last = "write_err"
    /\ ar_saved.some
    /\ Len(ar_saved.data.turn_data) > 0
    /\ Len(ar_appended) = MaxImages

\* C20: load_from_current_past from sub state InThePast at completed turn k
\* leaves the session with exactly the turns 0..k, equal to what
\* read_game_data returns from the archive afterwards, in sub state
\* Complete on turn k with current turn k + 1; the images stay in the
\* archive and every image id of a remaining turn is still read.
C20_RewindKeepsTurnsUpToK ==
    [][(ctx_sub_state.kind = "InThePast"
            /\ ctx_last'.msg = "load_from_current_past") =>
        LET k == ctx_sub_data.completed_turn
            after == [ok |-> TRUE, file |-> ar_file', header |-> ar_header',
                      image_index |-> ar_index']
        IN  /\ ctx_last'.ok
            /\ gm_turn_data' = SubSeq(gm_turn_data, 1, k + 1)
            /\ k + 1 < Len(gm_turn_data)
            /\ read_game_data(after) =
                  [ok |-> TRUE,
                   value |-> [world_description |-> gm_world',
                              turn_data |-> gm_turn_data',
                              summaries |-> gm_summaries']]
            /\ ctx_sub_state'.kind = "Complete"
            /\ ctx_sub_data'.data = gm_turn_data'[k + 1]
            /\ current_turn([world_description |-> gm_world',
                             turn_data |-> gm_turn_data',
                             summaries |-> gm_summaries']) = k + 1
            /\ ar_index' = ar_index
            /\ \A i \in 1..Len(ar_appended) :
                  read_image(after, i - 1) = [ok |-> TRUE, bytes |-> ar_appended[i]]
            /\ \A t \in 1..Len(gm_turn_data') :
                  \A j \in 1..Len(gm_turn_data'[t].image_ids) :
                      read_image(after, gm_turn_data'[t].image_ids[j]).ok]_vars

\* The game was loaded from a turn in the past after a summary had been
\* made, and two turns were cut.
C20_Witness ==
    /\ ctx_last = Handled("load_from_current_past", TRUE)
    /\ ctx_sub_state.kind = "Complete"
    /\ gm_summaries # <<>>
    /\ Discarded = 2
    /\ ar_saved.data = Game

\* C21: load_completed_turn(k) fails when k is not below the number of
\* committed turns; otherwise it ends with GameContext::current_turn() =
\* k + 1, in sub state Complete exactly when k + 1 is the number of
\* committed turns and in InThePast { completed_turn = k } otherwise, and
\* the sub state holds turn_data[k].
C21_TurnAddressingOffset ==
    [][\A k \in 0..(MaxTurns + 1) :
        GoToTurn(k) =>
            IF k >= Len(gm_turn_data)
            THEN /\ ~ctx_last'.ok
                 /\ UNCHANGED <<ctx_sub_state, ctx_sub_data>>
            ELSE /\ ctx_last'.ok
                 /\ ctx_current_turn' = k + 1
                 /\ ctx_sub_state'.kind = "Complete" <=> k + 1 = Len(gm_turn_data)
                 /\ ctx_sub_state'.kind # "Complete" =>
                       /\ ctx_sub_state'.kind = "InThePast"
                       /\ ctx_sub_data'.completed_turn = k
                 /\ ctx_sub_data'.data = gm_turn_data[k + 1]]_vars

\* Turn 3 of a session of at least ten turns is shown.
C21_Witness ==
    /\ Len(gm_turn_data) >= 10
    /\ ctx_last = Handled("load_completed_turn", TRUE)
    /\ ctx_sub_state.kind = "InThePast"
    /\ ctx_sub_data = SubData(3, gm_turn_data[4])

\* The items of kind MessageComplete that the client's stream has yielded.
CompleteItems == {i \in 1..Len(cl_items) : cl_items[i].kind = "MessageComplete"}

\* C22: a stream of an LLM client that ends without an error item has
\* yielded exactly one MessageComplete, as its last item: nothing follows
\* it and the stream never ends cleanly without one.  Violated.
C22_StreamEndsWithOneMessageComplete ==
    cl_pc = "ended" => CompleteItems = {Len(cl_items)}

\* The events that the stream holds, cut at its blank lines: what is left
\* after the last blank line is an event when it is not empty.
StreamEvents(stream) ==
    LET pieces == split(stream, NLNL)
        kept == IF pieces[Len(pieces)] = <<>>
                THEN SubSeq(pieces, 1, Len(pieces) - 1) ELSE pieces
    IN  [i \in 1..Len(kept) |-> from_raw_event(parse_sse_event(kept[i]).raw)]

\* Every event of the stream is made of `event: ` and `data: ` lines.
WellFormed(stream) ==
    \A i \in 1..Len(split(stream, NLNL)) :
        parse_sse_event(split(stream, NLNL)[i]).ok

\* The events of the whole stream fed as one chunk, then parse_remaining.
WholeEvents(stream) ==
    LET r == parser_process(new_parser, stream) IN
    r.events \o parse_remaining(r.parser).events

\* C25: for any chunking of a stream of blank-line-separated events,
\* feeding the chunks in order to Parser::process and then calling
\* parse_remaining yields the events of the stream, in stream order, as
\* feeding the whole stream as one chunk does; no event is lost, doubled
\* or split at a chunk boundary.
C25_ChunkingDoesNotChangeEvents ==
    /\ (sse_pc = "feeding" /\ WellFormed(sse_stream)) =>
            sse_events = parser_process(new_parser,
                                        SubSeq(sse_stream, 1, sse_fed)).events
    /\ (sse_pc = "done" /\ WellFormed(sse_stream)) =>
            /\ sse_events = WholeEvents(sse_stream)
            /\ sse_events = StreamEvents(sse_stream)

\* A stream of three events has been fed in chunks that cut an event and
\* a separator, and the last event came from parse_remaining.
C25_Witness ==
    /\ sse_pc = "done"
    /\ WellFormed(sse_stream)
    /\ Len(sse_events) = 3
    /\ sse_events[3].kind = "Plain"
    /\ sse_events[2].kind = "Json"
    /\ sse_stream[Len(sse_stream) - 1] # "\n"

\* C23: the scanner never loses, duplicates or reorders input.  Before a
\* full match the CheckedOutput texts returned so far, followed by the
\* buffered characters of the tentative match, are the input consumed so
\* far; so the characters of a partial match that is broken later are
\* emitted, in order, by a later call.
C23_ScannerKeepsEveryCharacter ==
    sf_last.kind # "StopTokenMatched" =>
        sf_checked \o sf_finder.stored_output = SubSeq(sf_input, 1, sf_fed)

\* A call has emitted the start of a broken partial match that an earlier
\* call had buffered, and another partial match is buffered now.
C23_Witness ==
    /\ sf_last.kind = "CheckedOutput"
    /\ sf_last.text[1] = sf_target[1]
    /\ Len(sf_checked) > Len(sf_last.text)
    /\ sf_finder.stored_output # <<>>

\* C27: the restart rule of the scanner.  When a character does not
\* extend the current match, then if it equals target[0] the buffered
\* characters are flushed to the output and the buffer becomes that one
\* character with cursor 1; otherwise the buffer followed by the character
\* is flushed and the cursor resets to 0.
C27_RestartRule ==
    [][(sf_fed' = sf_fed + 1
            /\ sf_input[sf_fed'] # sf_target[sf_finder.current_pos + 1]) =>
        LET ch == sf_input[sf_fed'] IN
        IF ch = sf_target[1]
        THEN /\ sf_checked' = sf_checked \o sf_finder.stored_output
             /\ sf_finder' = [current_pos |-> 1, stored_output |-> <<ch>>]
        ELSE /\ sf_checked' = sf_checked \o sf_finder.stored_output \o <<ch>>
             /\ sf_finder' = [current_pos |-> 0, stored_output |-> <<>>]]_vars

\* A match of two characters was just broken by the first character of the
\* target: the two are out, that character is buffered, the cursor is at 1.
C27_Witness ==
    /\ sf_fed >= 3
    /\ sf_finder = [current_pos |-> 1, stored_output |-> <<sf_target[1]>>]
    /\ sf_last.kind = "CheckedOutput"
    /\ Len(sf_last.text) = 2
    /\ sf_input[sf_fed] = sf_target[1]
    /\ sf_input[sf_fed - 1] # sf_target[1]

\* C24: After each successful SummaryFinished commit, update_hidden_info,
\* update_output and world-description edit, read_game_data on the archive
\* returns a value equal to the in-memory game data.
C24_SavedAfterCommitAndEdit ==
    (ctx_last \in {Handled(msg, TRUE) :
                      msg \in {"SummaryFinished", "update_hidden_info",
                               "update_output", "upate_world_description"}})
        => read_game_data(Archive) = [ok |-> TRUE, value |-> Game]

\* The first turn edited twice, as the last turn and then as a turn of the
\* past, and the world edited, all saved.
C24_Witness ==
    /\ ctx_last = Handled("update_hidden_info", TRUE)
    /\ ctx_sub_state.kind = "InThePast"
    /\ Len(gm_turn_data) >= 2
    /\ gm_turn_data[1].output = [text |-> EditedText, secret_info |-> EditedText]
    /\ gm_world = EditedWorld
    /\ read_game_data(Archive).value = Game

\* C30: update_output(val) in Complete and in InThePast changes only
\* output.text of the shown turn, in the game data and in the turn kept by
\* the sub state; secret_info and everything else stay, so hidden_info()
\* returns the secret info it returned before.
C30_UpdateOutputChangesOnlyText ==
    [][\A val \in {EditedText} :
          (UpdateOutput(val) /\ ctx_sub_state.kind \in {"Complete", "InThePast"})
              => LET shown == shown_turn(ctx_sub_state, ctx_sub_data, Game) IN
                 /\ gm_turn_data' =
                        [gm_turn_data EXCEPT ![shown].output.text = val]
                 /\ ctx_sub_data' =
                        [ctx_sub_data EXCEPT !.data.output.text = val]
                 /\ hidden_info' = hidden_info
                 /\ UNCHANGED <<gm_summaries, gm_world, ctx_sub_state>>]_vars

\* C26: request_summary is called once for a turn, and only by the message
\* that brings the second of the turn output and the image, in either
\* order; the image is appended, the turn appended, the data saved and the
\* sub state made Complete only by SummaryFinished; a text fragment that
\* comes before the two are joined is pushed to the stream buffer.
C26_SummaryAfterJoinCommitAfterSummary ==
    /\ [](ctx_sub_state.kind = "WaitingForSummary"
             => ctx_tasks.output = "none" /\ ctx_tasks.image = "none")
    /\ [][/\ (ctx_tasks.summary = "none" /\ ctx_tasks'.summary # "none")
              => (/\ ctx_sub_state.kind = "WaitingForOutput"
                  /\ ctx_sub_state'.kind = "WaitingForSummary"
                  /\ \/ /\ ctx_last'.msg = "OutputComplete"
                        /\ ctx_sub_state.image /\ ~ctx_sub_state.output
                     \/ /\ ctx_last'.msg = "ImageReady"
                        /\ ctx_sub_state.output /\ ~ctx_sub_state.image)
          /\ (ctx_tasks.summary # "none")
              => (ctx_tasks'.summary \in {"none", ctx_tasks.summary})
          /\ (\/ gm_turn_data' # gm_turn_data
              \/ ar_index' # ar_index
              \/ ar_saved' # ar_saved
              \/ ctx_sub_state'.kind = "Complete" /\ ctx_sub_state.kind # "Complete")
              => (/\ ctx_last' \in {Handled("SummaryFinished", b) : b \in BOOLEAN}
                  /\ ctx_sub_state.kind = "WaitingForSummary")
          /\ (NewTextFragment(TRUE) /\ ctx_sub_state.kind = "WaitingForOutput")
              => (ctx_sub_state' =
                     [ctx_sub_state EXCEPT !.stream_buffer = @ + 1])]_vars

\* In a later turn of a session the image is in, the output is not, and the
\* second text fragment was just pushed.
C26_Witness ==
    /\ ctx_sub_state =
          [SubState("WaitingForOutput", FALSE, TRUE) EXCEPT !.stream_buffer = 2]
    /\ ctx_last = Handled("NewTextFragment", TRUE)
    /\ Len(gm_turn_data) >= 1

\* The place of a SendToLLMState in the order of a turn.
ModeRank(mode) ==
    CASE mode = "ParsingImageDescription" -> 0
      [] mode = "StreamingOutputText" -> 1
      [] mode = "FinishingUp" -> 2

\* C28: The parsing mode of a turn only moves forward, from
\* ParsingImageDescription to StreamingOutputText to FinishingUp; text is
\* put on the live stream only by a step taken in StreamingOutputText; a
\* TextDelta received in FinishingUp changes nothing and emits nothing.
C28_ModeOnlyMovesForward ==
    [][/\ ModeRank(tn_mode') >= ModeRank(tn_mode)
       /\ ModeRank(tn_mode') <= ModeRank(tn_mode) + 1
       /\ (tn_live' # tn_live) => (tn_mode = "StreamingOutputText")
       /\ ((\E f \in Deltas : PollTextDelta(f)) /\ tn_mode = "FinishingUp")
             => UNCHANGED <<tn_pc, tn_mode, tn_eoi_finder, tn_eoo_finder,
                            tn_image_description, tn_post_eoi_text,
                            tn_tx_img_description, tn_img_sent, tn_live,
                            tn_output, tn_tx_output>>]_vars

\* Four deltas were taken: text went out on the live stream, <<<EOO>>> was
\* matched and at least one more delta came after it.
C28_Witness ==
    /\ tn_mode = "FinishingUp"
    /\ tn_pc = "loop"
    /\ ~tn_ended
    /\ tn_polls = MaxPolls
    /\ tn_live # <<>>
    /\ tn_eoo_finder = new_finder

\* The summaries that exist when the input of turn k is given: those added
\* by the commits of the turns before k.
SummariesBefore(k) ==
    {i \in 0..(Len(gm_summaries) - 1) : gm_summaries[i + 1].bday < k}

PublishedDescription == parse_image_description(tn_image_description)

\* C31: When a response whose full text decodes has been delivered in
\* fragments, the chunks of the live text stream put together are the text
\* between <<<EOIC>>> and <<<EOO>>> of the full text, and the published
\* image description and caption are the texts before and after
\* <<<EOID>>>, all up to surrounding whitespace.
C31_IncrementalAgreesWithReparse ==
    (tn_pc = "done" /\ tn_output.ok)
        => /\ trim(Flatten(tn_live)) = tn_output.value.text
           /\ tn_img_sent = 1
           /\ PublishedDescription.ok
           /\ trim(PublishedDescription.description)
                  = tn_output.value.image_description
           /\ trim(PublishedDescription.caption)
                  = tn_output.value.image_caption

\* The part of the response that the player may see: what comes before the
\* first <<<EOO>>> (all of it when there is none).
VisiblePart(text) ==
    IF Occurrences(text, EOO) = {} THEN text
    ELSE LET first == CHOOSE a \in Occurrences(text, EOO) :
                          \A b \in Occurrences(text, EOO) : a <= b
         IN  SubSeq(text, 1, first - 1)

\* C32: No chunk of the live text stream holds <<<EOO>>> or text that
\* follows it in the response, whatever the fragments are, also when
\* <<<EOIC>>> and <<<EOO>>> come in one fragment: every chunk is a piece of
\* the response before <<<EOO>>>.
C32_NoHiddenTextOnLiveStream ==
    \A i \in 1..Len(tn_live) :
        \/ tn_live[i] = <<>>
        \/ Occurrences(VisiblePart(rs_text), tn_live[i]) # {}

\* The stream of send_to_llm is over: text_stream has ended and tx_output
\* was used or dropped, so that round_output resolves.
TurnTerminated ==
    /\ tn_pc \in {"done", "error", "panic"}
    /\ tn_tx_output \in {"sent", "dropped"}

\* C33: Once the response stream of the LLM has ended, with or without a
\* MessageComplete, the stream of the turn comes to its end and the turn
\* output resolves to a value or an error.
C33_TurnTerminates ==
    (tn_ended \/ tn_pc = "final_poll") ~> TurnTerminated

\* The turns sent as history in the request of the running turn.
TurnsInRequest ==
    {ctx_request.messages[j].content.turn :
        j \in {m \in 1..Len(ctx_request.messages) :
                  /\ ctx_request.messages[m].role = "user"
                  /\ ctx_request.messages[m].content.turn # None}}

\* The turns that were given to the summarizer for the Summary su: it was
\* asked with tdl = su.bday turns committed (bday is turn_data.len() - 1
\* after the push, game.rs:237) over turn_data[tdl - SUMMARY_INTERVAL..tdl]
\* (game.rs:203).
SummarizedTurns(su) == (su.bday - SUMMARY_INTERVAL)..(su.bday - 1)

\* C34: Whenever a request is built, every committed turn is among the
\* turns sent as history or was in the turns given to the summarizer for
\* the latest Summary or one before it.
C34_NoTurnDropsOutOfContext ==
    ctx_sub_state.kind = "WaitingForOutput" =>
        \A k \in 0..(Len(gm_turn_data) - 1) :
            \/ k \in TurnsInRequest
            \/ \E i \in 1..Len(gm_summaries) :
                    k \in SummarizedTurns(gm_summaries[i])

\* C35: every TurnData that is committed holds an input together with the
\* output and the image of the call of send_to_llm that was made for that
\* input, in whatever order the messages of the tasks arrive and also when
\* generate_new_turn is called again while messages of an earlier call are
\* still to be handled.
C35_CommittedTurnPairsOneCall ==
    \A i \in 1..Len(cc_turn_data) :
        /\ cc_turn_data[i].output = cc_turn_data[i].input
        /\ cc_turn_data[i].image = cc_turn_data[i].input

\* C36: when append_image stops after any of its writes and the file is
\* opened again, the archive opens, its images are those from before the
\* call or those after it, and every image appended before reads back as
\* it did.
C36_ConsistentWhereverAppendStops ==
    [][\A img \in Images, step \in AppendImageSteps :
          ArAppendImageInterrupted(img, step) =>
              (/\ ar_last' = "reopen"
               /\ ar_index' \in {ar_index, append_image(Archive, img).image_index}
               /\ \A id \in 0..(Len(ar_index) - 1) :
                      read_image([ok |-> TRUE, file |-> ar_file',
                                  header |-> ar_header',
                                  image_index |-> ar_index'], id)
                          = read_image(Archive, id))]_vars

\* The handle after the step.
ArchiveAfter ==
    [ok |-> TRUE, file |-> ar_file', header |-> ar_header',
     image_index |-> ar_index']

\* The byte range of every image lies behind the header and the game data
\* region, and ends where the next image begins or before.
ImageRangesApart ==
    \A i \in 1..Len(ar_index) :
        /\ ar_index[i][1] >=
              ar_header.game_data_region_offset + ar_header.game_data_region_size
        /\ ar_header.game_data_region_offset >= HEADER_SIZE
        /\ \A j \in 1..Len(ar_index) :
              i < j => ar_index[i][1] + ar_index[i][2] <= ar_index[j][1]

\* C37: write_game_data leaves the image index and the bytes of every image
\* as they were, append_image leaves game_data_size and the stored game
\* data as they were, in any order of the two; and the byte range of an
\* image never overlaps the header, the game data region or another image.
C37_GameDataAndImagesApart ==
    /\ [][/\ \A d \in ArchiveDocs :
               ArWriteGameData(d) =>
                   (/\ ar_index' = ar_index
                    /\ \A id \in 0..(Len(ar_index) - 1) :
                           read_image(ArchiveAfter, id) = read_image(Archive, id))
          /\ \A img \in Images :
               ArAppendImage(img) =>
                   (/\ ar_header'.game_data_size = ar_header.game_data_size
                    /\ read_game_data(ArchiveAfter) = read_game_data(Archive))]_vars
    /\ []ImageRangesApart

\* The longest document that fits is stored and reads back, two images
\* that have bytes are in the index, and the last operation was an append.
C37_Witness ==
    /\ ar_saved.some
    /\ ar_saved.data = make_sample_game_data(FitTurns, 1)
    /\ read_game_data(Archive) = [ok |-> TRUE, value |-> ar_saved.data]
    /\ Len(ar_index) = 2
    /\ ar_index[1][2] > 0
    /\ ar_index[2][2] > 0
    /\ ar_last = "append"

\* C38: whenever load_prev_turn is called, in sub state Complete or
\* InThePast, the target it computes (current_turn - 2, or completed_turn
\* - 1) is not below zero and is the index of a committed turn.
C38_PrevTurnTargetNotBelowZero ==
    [][LoadPrevTurn =>
          (/\ load_prev_turn_target >= 0
           /\ load_prev_turn_target < Len(gm_turn_data))]_vars

=============================================================================
